---- MODULE Spec2Model ----
(***************************************************************************)
(* Model of the Org-Pilot-Intelligence console: the record detail view     *)
(* (RecordDetailModal), the record assembler (fetchRecordWithRelated), the *)
(* synthetic default layout (createDefaultLayout), the metadata dictionary *)
(* (MetadataDictionary.handleSelectObject) and the process diagram editor  *)
(* (DiagramEditor.handleGenerate).                                         *)
(*                                                                         *)
(* Every component is a React function component: its state cells are the *)
(* variables below, an event handler or the continuation of an await is    *)
(* one action.  The components do not share state, so each has its own     *)
(* specification that leaves the other components' variables untouched.    *)
(***************************************************************************)
EXTENDS Integers, Sequences, FiniteSets, TLC

VARIABLES
    \* createDefaultLayout applied to a field list (App.tsx 92-129)
    fieldsIn, layoutOut,
    \* fetchRecordWithRelated (salesforceService.ts 133-171)
    frrPc, frrChildRels, frrStore, frrQuery, frrOutcome, frrReplies,
    \* RecordDetailModal (App.tsx 131-206)
    data, relatedData, layouts, selectedLayoutId, loading, layoutLoading,
    error, rdmPc, objDetails, rdmStore, rdmQuery, layoutReply, lookupSucceeds,
    \* MetadataDictionary (ElementsGPT.tsx 235-291), mounted by App (App.tsx 64)
    selectedObject, loadingDetails, cachedDetails, activeTab,
    describesInFlight, lastClicked, dictMounted, everCached, refetched,
    lastResponse, surfacedErrors,
    \* DiagramEditor (unnamed/part_000 299-456)
    nodes, edges, isGenerating, generationMode, customPrompt,
    availableProcesses, selectedProcessId, loadingProcesses, stepsInFlight,
    generationsInFlight, lastGeneration,
    \* DiagramEditor impact analysis (unnamed/part_000 359-382)
    impactNodes, impactEdges, impactStart,
    \* getLayoutedElements (unnamed/part_000 266-293, ElementsGPT.tsx 195-224)
    layoutHelper, layoutCalls,
    \* MetadataDictionary.generateDependencyGraph (ElementsGPT.tsx 294-356)
    depObject, depNodes, depEdges,
    \* App (App.tsx 12-72) and authenticate (salesforceService.ts 16-92)
    appUser, appOrgData, appLoading, appError, appActiveTab, authPc,
    loginRequests, submits, lastAuthError,
    \* SoqlExplorer (SoqlExplorer.tsx 20-141) and fetchQuery (salesforceService.ts 94-118)
    soqlQuery, soqlResults, soqlLoading, soqlError, cachedObjectFields,
    executeLog, pendingExecutes, pendingAutocompletes, executeClicks,
    lastExecuteError,
    \* the loop of runImpactAnalysis (unnamed/part_000 361-371)
    travEdges, travQueue, travDownstreamIds, travPushed, travPc,
    \* DiagramEditor impact mode (unnamed/part_000 300-303, 342-388, 446-448)
    modeNodes, modeEdges, selectedNode, impactMode, clickEdges, lastHandler,
    \* fetchOrgProcessDefinitions (salesforceService.ts 281-362)
    procResults, procReplies, procPc

layoutVars      == <<fieldsIn, layoutOut>>
frrVars         == <<frrPc, frrChildRels, frrStore, frrQuery, frrOutcome,
                     frrReplies>>
rdmVars         == <<data, relatedData, layouts, selectedLayoutId, loading,
                     layoutLoading, error, rdmPc, objDetails, rdmStore,
                     rdmQuery, layoutReply, lookupSucceeds>>
dictVars        == <<selectedObject, loadingDetails, cachedDetails,
                     activeTab, describesInFlight, lastClicked, dictMounted,
                     everCached, refetched, lastResponse, surfacedErrors>>
diagVars        == <<nodes, edges, isGenerating, generationMode,
                     customPrompt, availableProcesses, selectedProcessId,
                     loadingProcesses, stepsInFlight, generationsInFlight,
                     lastGeneration>>
impactVars      == <<impactNodes, impactEdges, impactStart>>
graphLayoutVars == <<layoutHelper, layoutCalls>>
depVars         == <<depObject, depNodes, depEdges>>
appVars         == <<appUser, appOrgData, appLoading, appError, appActiveTab,
                     authPc, loginRequests, submits, lastAuthError>>
soqlVars        == <<soqlQuery, soqlResults, soqlLoading, soqlError,
                     cachedObjectFields, executeLog, pendingExecutes,
                     pendingAutocompletes, executeClicks, lastExecuteError>>
traversalVars   == <<travEdges, travQueue, travDownstreamIds, travPushed,
                     travPc>>
modeVars        == <<modeNodes, modeEdges, selectedNode, impactMode,
                     clickEdges, lastHandler>>
procDefVars     == <<procResults, procReplies, procPc>>
vars            == <<layoutVars, frrVars, rdmVars, dictVars, diagVars,
                     impactVars, graphLayoutVars, depVars, appVars, soqlVars,
                     traversalVars, modeVars, procDefVars>>

\* The variables of the other components.
layoutRest      == <<frrVars, rdmVars, dictVars, diagVars, impactVars,
                     graphLayoutVars, depVars, appVars, soqlVars,
                     traversalVars, modeVars, procDefVars>>
frrRest         == <<layoutVars, rdmVars, dictVars, diagVars, impactVars,
                     graphLayoutVars, depVars, appVars, soqlVars,
                     traversalVars, modeVars, procDefVars>>
rdmRest         == <<layoutVars, frrVars, dictVars, diagVars, impactVars,
                     graphLayoutVars, depVars, appVars, soqlVars,
                     traversalVars, modeVars, procDefVars>>
dictRest        == <<layoutVars, frrVars, rdmVars, diagVars, impactVars,
                     graphLayoutVars, depVars, appVars, soqlVars,
                     traversalVars, modeVars, procDefVars>>
diagRest        == <<layoutVars, frrVars, rdmVars, dictVars, impactVars,
                     graphLayoutVars, depVars, appVars, soqlVars,
                     traversalVars, modeVars, procDefVars>>
impactRest      == <<layoutVars, frrVars, rdmVars, dictVars, diagVars,
                     graphLayoutVars, depVars, appVars, soqlVars,
                     traversalVars, modeVars, procDefVars>>
graphLayoutRest == <<layoutVars, frrVars, rdmVars, dictVars, diagVars,
                     impactVars, depVars, appVars, soqlVars, traversalVars,
                     modeVars, procDefVars>>
depRest         == <<layoutVars, frrVars, rdmVars, dictVars, diagVars,
                     impactVars, graphLayoutVars, appVars, soqlVars,
                     traversalVars, modeVars, procDefVars>>
appRest         == <<layoutVars, frrVars, rdmVars, dictVars, diagVars,
                     impactVars, graphLayoutVars, depVars, soqlVars,
                     traversalVars, modeVars, procDefVars>>
soqlRest        == <<layoutVars, frrVars, rdmVars, dictVars, diagVars,
                     impactVars, graphLayoutVars, depVars, appVars,
                     traversalVars, modeVars, procDefVars>>
traversalRest   == <<layoutVars, frrVars, rdmVars, dictVars, diagVars,
                     impactVars, graphLayoutVars, depVars, appVars, soqlVars,
                     modeVars, procDefVars>>
modeRest        == <<layoutVars, frrVars, rdmVars, dictVars, diagVars,
                     impactVars, graphLayoutVars, depVars, appVars, soqlVars,
                     traversalVars, procDefVars>>
procDefRest     == <<layoutVars, frrVars, rdmVars, dictVars, diagVars,
                     impactVars, graphLayoutVars, depVars, appVars, soqlVars,
                     traversalVars, modeVars>>

(***************************************************************************)
(* Optional values: null / undefined is the empty tuple.                   *)
(***************************************************************************)
None == <<>>
Some(v) == <<v>>

Min(S) == CHOOSE x \in S : \A y \in S : x <= y

Range(s) == {s[i] : i \in 1..Len(s)}

\* Object spread { ...a, ...b }: the keys of both, b's value where both have one.
Spread(a, b) ==
    [k \in DOMAIN a \cup DOMAIN b |-> IF k \in DOMAIN b THEN b[k] ELSE a[k]]

\* Array.prototype.filter over a sequence, keeping the order.
RECURSIVE FilterSeq(_, _)
FilterSeq(s, keep) ==
    IF s = <<>> THEN <<>>
    ELSE IF Head(s) \in keep THEN <<Head(s)>> \o FilterSeq(Tail(s), keep)
         ELSE FilterSeq(Tail(s), keep)

\* Array.prototype.slice(0, n)
SliceTo(s, n) == SubSeq(s, 1, IF Len(s) < n THEN Len(s) ELSE n)

(***************************************************************************)
(* createDefaultLayout                                                     *)
(***************************************************************************)

\* Bounds of the field lists.
MaxFields == 4

\* Field api names: the two the comparator singles out and three others.
ApiNames == {"Name", "Id", "Amount", "Phone", "Zip"}

\* Labels are sequences of the letters a, b and B.
Labels == {<<"b">>, <<"B">>, <<"a", "b">>}

\* Collation weights of a letter: the primary weight is the letter itself,
\* the tertiary weight its case (lower case first).
PrimaryWeight(c)  == IF c = "a" THEN 1 ELSE 2
TertiaryWeight(c) == IF c = "B" THEN 1 ELSE 0

\* Lexicographic comparison of two sequences of numbers: -1, 0 or 1.
RECURSIVE LexCompare(_, _)
LexCompare(s, t) ==
    IF s = <<>> /\ t = <<>> THEN 0
    ELSE IF s = <<>> THEN -1
    ELSE IF t = <<>> THEN 1
    ELSE IF Head(s) < Head(t) THEN -1
    ELSE IF Head(s) > Head(t) THEN 1
    ELSE LexCompare(Tail(s), Tail(t))

\* String.prototype.localeCompare: the letters decide first, and only when
\* the two strings have the same letters does the case decide.
localeCompare(x, y) ==
    LET p == LexCompare([i \in 1..Len(x) |-> PrimaryWeight(x[i])],
                        [i \in 1..Len(y) |-> PrimaryWeight(y[i])])
    IN  IF p # 0 THEN p
        ELSE LexCompare([i \in 1..Len(x) |-> TertiaryWeight(x[i])],
                        [i \in 1..Len(y) |-> TertiaryWeight(y[i])])

\* A comparator that tests Id before Name.
compareFields_IdBeforeName(a, b) ==
    IF a.apiName = "Id" THEN -1
    ELSE IF b.apiName = "Id" THEN 1
    ELSE IF a.apiName = "Name" THEN -1
    ELSE IF b.apiName = "Name" THEN 1
    ELSE localeCompare(a.label, b.label)

\* The comparator handed to sort().
compareFields(a, b) ==
    IF a.apiName = "Name" THEN -1
    ELSE IF b.apiName = "Name" THEN 1
    ELSE IF a.apiName = "Id" THEN -1
    ELSE IF b.apiName = "Id" THEN 1
    ELSE localeCompare(a.label, b.label)

\* Array.prototype.sort is stable: an element goes before the first element
\* it compares smaller than, and after every element it ties with.
InsertField(x, s) ==
    LET after == {i \in 1..Len(s) : compareFields(x, s[i]) < 0}
        p     == IF after = {} THEN Len(s) + 1 ELSE Min(after)
    IN  SubSeq(s, 1, p - 1) \o <<x>> \o SubSeq(s, p, Len(s))

RECURSIVE SortInto(_, _)
SortInto(fields, acc) ==
    IF fields = <<>> THEN acc
    ELSE SortInto(Tail(fields), InsertField(Head(fields), acc))

sortedFields(fields) == SortInto(fields, <<>>)

\* A row test that forgets the last, half-filled row.
rowIsComplete_PairsOnly(currentRow, index, n) == Len(currentRow) = 2

\* The test that closes a row: two items, or the last field.
rowIsComplete(currentRow, index, n) ==
    Len(currentRow) = 2 \/ index = n - 1

\* The forEach over the sorted fields; index counts from 0.
RECURSIVE BuildRows(_, _, _, _)
BuildRows(sorted, index, currentRow, layoutRows) ==
    IF index = Len(sorted) THEN layoutRows
    ELSE LET field == sorted[index + 1]
             item  == [label |-> field.label,
                       layoutComponents |->
                           <<[type |-> "Field", value |-> field.apiName]>>]
             row   == Append(currentRow, item)
         IN  IF rowIsComplete(row, index, Len(sorted))
             THEN BuildRows(sorted, index + 1, <<>>,
                            Append(layoutRows, [layoutItems |-> row]))
             ELSE BuildRows(sorted, index + 1, row, layoutRows)

SystemDefaultId == "system-default"

createDefaultLayout(objectType, fields) ==
    [id   |-> SystemDefaultId,
     name |-> "System Default Layout",
     detailLayoutSections |->
        <<[heading    |-> <<objectType, " Details">>,
           useHeading |-> TRUE,
           layoutRows |-> BuildRows(sortedFields(fields), 0, <<>>, <<>>),
           columns    |-> 2]>>]

\* The field lists of length n with pairwise distinct api names.
FieldLists(n) ==
    {[i \in 1..n |-> [apiName |-> names[i], label |-> labels[i]]] :
        names \in {s \in [1..n -> ApiNames] :
                      \A i, j \in 1..n : i # j => s[i] # s[j]},
        labels \in [1..n -> Labels]}

AllFieldLists == UNION {FieldLists(n) : n \in 0..MaxFields}

LayoutInit ==
    /\ fieldsIn \in AllFieldLists
    /\ layoutOut = None

\* The call createDefaultLayout(objectType, fields).
CreateDefaultLayout ==
    /\ layoutOut = None
    /\ layoutOut' = Some(createDefaultLayout("Account", fieldsIn))
    /\ UNCHANGED fieldsIn
    /\ UNCHANGED layoutRest

(***************************************************************************)
(* fetchRecordWithRelated                                                  *)
(***************************************************************************)

\* Bounds: the length of a child relationship list, and the child rows the
\* org holds under one relationship.
MaxRels == 11
MaxChildRows == 6

\* The caps written in the source.
RelationshipCap == 10
ChildRowLimit == 5

\* Relationship names are numbered; NoName is the empty (or null) name of a
\* relationship that cannot be queried from the parent.
NoName == 0

\* The child relationship lists of a describe: entry i either carries the
\* name i or no name (relationship names are unique within an object).
ChildRelLists(n) ==
    {[i \in 1..n |-> [relationshipName |-> IF i \in named THEN i ELSE NoName]] :
        named \in SUBSET (1..n)}

AllChildRelLists == UNION {ChildRelLists(n) : n \in 0..MaxRels}

\* The child rows the org holds: one count for the relationships with an odd
\* name, one for those with an even name.
RowCounts == {0, 2, MaxChildRows}
Stores == [odd : RowCounts, even : RowCounts]
RowsInStore(store, name) == IF name % 2 = 1 THEN store.odd ELSE store.even

\* The record the point lookup returns.
BaseRecord == [Id |-> "001A", Name |-> "Acme"]

\* A selection that takes the first 11 relationships.
relationshipsToQuery_OffByOne(childRels) ==
    SliceTo(FilterSeq(childRels,
                {r \in Range(childRels) : r.relationshipName # NoName}),
            RelationshipCap + 1)

\* childRels.filter(r => r.relationshipName).slice(0, 10)
relationshipsToQuery(childRels) ==
    SliceTo(FilterSeq(childRels,
                {r \in Range(childRels) : r.relationshipName # NoName}),
            RelationshipCap)

\* A sub-select without the LIMIT clause.
subquery_NoLimit(r) == [from |-> r.relationshipName, limit |-> None]

\* (SELECT Id, Name, CreatedDate FROM <relationshipName> LIMIT 5)
subquery(r) == [from |-> r.relationshipName, limit |-> Some(ChildRowLimit)]

\* SELECT Id, <subqueries> FROM <objectName> WHERE Id = '<recordId>'
relatedQuery(objectName, recordId, rels) ==
    [from       |-> objectName,
     whereId    |-> recordId,
     subqueries |-> [i \in 1..Len(rels) |-> subquery(rels[i])]]

\* How the query service reports a sub-select without rows: as null, as a
\* result with an empty list of records, or as a result without a list.
ZeroRowEncodings == {"null", "emptyList", "noList"}

\* The row the query service returns for the query: under each sub-select's
\* relationship the rows the org holds, cut at the sub-select's LIMIT; a
\* sub-select without rows is reported in the encoding zeroRows.
QueryResultRow(query, store, zeroRows) ==
    [n \in {query.subqueries[i].from : i \in 1..Len(query.subqueries)} |->
        LET sq    == CHOOSE q \in Range(query.subqueries) : q.from = n
            held  == RowsInStore(store, n)
            count == IF sq.limit # None /\ sq.limit[1] < held
                     THEN sq.limit[1] ELSE held
        IN  IF count > 0
            THEN Some([totalSize |-> count,
                       records   |-> [k \in 1..count |-> k]])
            ELSE IF zeroRows = "null" THEN None
            ELSE IF zeroRows = "emptyList"
                 THEN Some([totalSize |-> 0, records |-> <<>>])
                 ELSE Some([totalSize |-> 0])]

\* resultRow[r.relationshipName].records || []
recordsOrEmpty(v) == IF "records" \in DOMAIN v THEN v.records ELSE <<>>

\* The forEach that fills relatedData from the result row.
relatedDataOf(rels, resultRow) ==
    [n \in {r.relationshipName : r \in
               {r \in Range(rels) : resultRow[r.relationshipName] # None}} |->
        recordsOrEmpty(resultRow[n][1])]

\* { ...baseRecord, relatedData }
withRelatedData(baseRecord, rd) ==
    [k \in DOMAIN baseRecord \cup {"relatedData"} |->
        IF k = "relatedData" THEN rd ELSE baseRecord[k]]

\* The ways the related-list query can end: with a row (in one of the
\* encodings of a sub-select without rows), with no row, or by throwing.
RowEndings == {<<"row", zeroRows>> : zeroRows \in ZeroRowEncodings}
QueryEndings == RowEndings \cup {<<"norow">>, <<"fail">>}

\* What fetchRecordWithRelated resolves with once the query has ended.
resolvedAfterQuery(baseRecord, rels, query, store, ending) ==
    IF ending \in RowEndings
    THEN withRelatedData(baseRecord,
                         relatedDataOf(rels,
                                       QueryResultRow(query, store, ending[2])))
    ELSE withRelatedData(baseRecord, <<>>)

FrrInit ==
    /\ frrPc = "lookup"
    /\ frrChildRels \in AllChildRelLists
    /\ frrStore \in Stores
    /\ frrQuery = <<>>
    /\ frrOutcome = None
    /\ frrReplies = <<>>

\* fetchRecordById throws: fetchRecordWithRelated rejects.
FrrLookupFail ==
    /\ frrPc = "lookup"
    /\ frrPc' = "rejected"
    /\ frrReplies' = Append(frrReplies, "lookupFail")
    /\ UNCHANGED <<frrChildRels, frrStore, frrQuery, frrOutcome>>
    /\ UNCHANGED frrRest

\* fetchRecordById resolves: either no relationship qualifies and the
\* function resolves at once, or the combined query is sent.
FrrLookupOk ==
    /\ frrPc = "lookup"
    /\ LET rels == relationshipsToQuery(frrChildRels)
       IN  IF Len(rels) = 0
           THEN /\ frrPc' = "resolved"
                /\ frrOutcome' = Some(withRelatedData(BaseRecord, <<>>))
                /\ UNCHANGED frrQuery
           ELSE /\ frrPc' = "query"
                /\ frrQuery' = Append(frrQuery,
                                      relatedQuery("Account", BaseRecord.Id, rels))
                /\ UNCHANGED frrOutcome
    /\ frrReplies' = Append(frrReplies, "lookupOk")
    /\ UNCHANGED <<frrChildRels, frrStore>>
    /\ UNCHANGED frrRest

\* A version without the try/catch around the query: its failure rejects.
FrrQueryEnds_Propagates ==
    /\ frrPc = "query"
    /\ \E ending \in QueryEndings :
          /\ frrReplies' = Append(frrReplies, ending[1])
          /\ IF ending = <<"fail">>
             THEN /\ frrPc' = "rejected"
                  /\ UNCHANGED frrOutcome
             ELSE /\ frrPc' = "resolved"
                  /\ frrOutcome' = Some(resolvedAfterQuery(BaseRecord,
                                           relationshipsToQuery(frrChildRels),
                                           frrQuery[Len(frrQuery)], frrStore,
                                           ending))
    /\ UNCHANGED <<frrChildRels, frrStore, frrQuery>>
    /\ UNCHANGED frrRest

\* The combined query ends: with a row, with no row, or by throwing.
FrrQueryEnds ==
    /\ frrPc = "query"
    /\ \E ending \in QueryEndings :
          /\ frrOutcome' = Some(resolvedAfterQuery(BaseRecord,
                                   relationshipsToQuery(frrChildRels),
                                   frrQuery[Len(frrQuery)], frrStore, ending))
          /\ frrReplies' = Append(frrReplies, ending[1])
    /\ frrPc' = "resolved"
    /\ UNCHANGED <<frrChildRels, frrStore, frrQuery>>
    /\ UNCHANGED frrRest

(***************************************************************************)
(* RecordDetailModal: loadRecordAndMetadata                                *)
(***************************************************************************)

\* Bounds of what a describe returns to the record view.
MaxRdmFields == 2
MaxRdmRels == 2

\* The field lists a describe returns to the record view.
DescribedFields ==
    {f \in UNION {FieldLists(n) : n \in 0..MaxRdmFields} :
        \A i \in 1..Len(f) : /\ f[i].apiName \in {"Name", "Id", "Zip"}
                             /\ f[i].label = <<"b">>}

\* What fetchObjectDetails resolves with; the record count is 0 when the
\* count query failed.
DescribeResults ==
    [fields             : DescribedFields,
     childRelationships : UNION {ChildRelLists(n) : n \in 0..MaxRdmRels},
     recordCount        : {0, 3}]

\* Page layouts of the layout service; the third has no detail section.
ServerLayout(id, sections) ==
    [id |-> id, name |-> id,
     detailLayoutSections |->
        [i \in 1..sections |->
            [heading |-> <<"Information">>, useHeading |-> TRUE,
             layoutRows |-> <<>>, columns |-> 2]]]

LayoutA == ServerLayout("00hA", 1)
LayoutB == ServerLayout("00hB", 1)
LayoutEmpty == ServerLayout("00hZ", 0)

\* What the layout service answers: a failure (HTTP error, network error,
\* unreadable body), a body without a layouts array, or a list of layouts.
LayoutReplies ==
    {[kind |-> "fail",     layouts |-> <<>>],
     [kind |-> "nolist",   layouts |-> <<>>],
     [kind |-> "list",     layouts |-> <<>>],
     [kind |-> "list",     layouts |-> <<LayoutA>>],
     [kind |-> "list",     layouts |-> <<LayoutA, LayoutB>>],
     [kind |-> "list",     layouts |-> <<LayoutEmpty>>],
     [kind |-> "list",     layouts |-> <<LayoutEmpty, LayoutA>>]}

\* fetchObjectLayouts: never throws, every failure becomes the empty list.
fetchObjectLayouts(reply) ==
    IF reply.kind = "list" THEN reply.layouts ELSE <<>>

\* const { relatedData, ...mainRecord } = recordResult
mainRecordOf(recordResult) ==
    [k \in DOMAIN recordResult \ {"relatedData"} |-> recordResult[k]]

RdmInit ==
    /\ data = None
    /\ relatedData = None
    /\ layouts = <<>>
    /\ selectedLayoutId = ""
    /\ loading = TRUE
    /\ layoutLoading = TRUE
    /\ error = None
    /\ rdmPc = "describe"
    /\ objDetails = None
    /\ rdmStore \in Stores
    /\ rdmQuery = <<>>
    /\ layoutReply = None
    /\ lookupSucceeds \in BOOLEAN

\* The outer catch: setError, setLoading(false), setLayoutLoading(false).
RdmCatch(message) ==
    /\ error' = Some(message)
    /\ loading' = FALSE
    /\ layoutLoading' = FALSE
    /\ rdmPc' = "failed"

\* A version that keeps the view blocked until the layouts have arrived.
RdmShowRecord_KeepLoading(recordResult) ==
    /\ data' = Some(mainRecordOf(recordResult))
    /\ relatedData' = Some(recordResult.relatedData)
    /\ loading' = loading
    /\ layoutLoading' = TRUE
    /\ rdmPc' = "layouts"

\* fetchRecordWithRelated resolved: the record is shown and the layout fetch
\* is started.
RdmShowRecord(recordResult) ==
    /\ data' = Some(mainRecordOf(recordResult))
    /\ relatedData' = Some(recordResult.relatedData)
    /\ loading' = FALSE
    /\ layoutLoading' = TRUE
    /\ rdmPc' = "layouts"

\* await fetchObjectDetails throws.
RdmDescribeFail ==
    /\ rdmPc = "describe"
    /\ RdmCatch("Failed to describe Account")
    /\ UNCHANGED <<data, relatedData, layouts, selectedLayoutId, objDetails,
                   rdmStore, rdmQuery, layoutReply, lookupSucceeds>>
    /\ UNCHANGED rdmRest

\* await fetchObjectDetails resolves; fetchRecordWithRelated starts with the
\* point lookup.
RdmDescribeOk ==
    /\ rdmPc = "describe"
    /\ \E details \in DescribeResults : objDetails' = Some(details)
    /\ rdmPc' = "lookup"
    /\ UNCHANGED <<data, relatedData, layouts, selectedLayoutId, loading,
                   layoutLoading, error, rdmStore, rdmQuery, layoutReply,
                   lookupSucceeds>>
    /\ UNCHANGED rdmRest

\* The point lookup throws: fetchRecordWithRelated rejects, outer catch.
RdmLookupFail ==
    /\ rdmPc = "lookup"
    /\ ~lookupSucceeds
    /\ RdmCatch("Failed to fetch record details")
    /\ UNCHANGED <<data, relatedData, layouts, selectedLayoutId, objDetails,
                   rdmStore, rdmQuery, layoutReply, lookupSucceeds>>
    /\ UNCHANGED rdmRest

\* The point lookup resolves: with no relationship to query the record is
\* shown at once, otherwise the combined query is sent first.
RdmLookupOk ==
    /\ rdmPc = "lookup"
    /\ lookupSucceeds
    /\ LET rels == relationshipsToQuery(objDetails[1].childRelationships)
       IN  IF Len(rels) = 0
           THEN /\ RdmShowRecord(withRelatedData(BaseRecord, <<>>))
                /\ UNCHANGED rdmQuery
           ELSE /\ rdmPc' = "query"
                /\ rdmQuery' = Append(rdmQuery,
                                      relatedQuery("Account", BaseRecord.Id, rels))
                /\ UNCHANGED <<data, relatedData, loading, layoutLoading>>
    /\ UNCHANGED <<layouts, selectedLayoutId, error, objDetails, rdmStore,
                   layoutReply, lookupSucceeds>>
    /\ UNCHANGED rdmRest

\* The combined query ends; fetchRecordWithRelated resolves either way.
RdmQueryEnds ==
    /\ rdmPc = "query"
    /\ \E ending \in QueryEndings :
          RdmShowRecord(resolvedAfterQuery(BaseRecord,
                            relationshipsToQuery(objDetails[1].childRelationships),
                            rdmQuery[Len(rdmQuery)], rdmStore, ending))
    /\ UNCHANGED <<layouts, selectedLayoutId, error, objDetails, rdmStore,
                   rdmQuery, layoutReply, lookupSucceeds>>
    /\ UNCHANGED rdmRest

\* A version without the fallback: whatever was fetched is taken.
RdmLayoutsArrive_NoFallback ==
    /\ rdmPc = "layouts"
    /\ \E reply \in LayoutReplies :
          LET fetchedLayouts == fetchObjectLayouts(reply)
          IN  /\ layoutReply' = Some(reply)
              /\ layouts' = fetchedLayouts
              /\ selectedLayoutId' = IF Len(fetchedLayouts) > 0
                                     THEN fetchedLayouts[1].id
                                     ELSE selectedLayoutId
    /\ layoutLoading' = FALSE
    /\ rdmPc' = "done"
    /\ UNCHANGED <<data, relatedData, loading, error, objDetails, rdmStore,
                   rdmQuery, lookupSucceeds>>
    /\ UNCHANGED rdmRest

\* await fetchObjectLayouts resolves: the fetched layouts, or the fallback.
RdmLayoutsArrive ==
    /\ rdmPc = "layouts"
    /\ \E reply \in LayoutReplies :
          LET fetchedLayouts == fetchObjectLayouts(reply)
              defaultLayout  == createDefaultLayout("Account", objDetails[1].fields)
          IN  /\ layoutReply' = Some(reply)
              /\ IF Len(fetchedLayouts) > 0
                 THEN /\ layouts' = fetchedLayouts
                      /\ selectedLayoutId' = fetchedLayouts[1].id
                 ELSE /\ layouts' = <<defaultLayout>>
                      /\ selectedLayoutId' = defaultLayout.id
    /\ layoutLoading' = FALSE
    /\ rdmPc' = "done"
    /\ UNCHANGED <<data, relatedData, loading, error, objDetails, rdmStore,
                   rdmQuery, lookupSucceeds>>
    /\ UNCHANGED rdmRest

\* The layout switcher: shown once the layouts are loaded.
RdmSelectLayout ==
    /\ ~layoutLoading
    /\ Len(layouts) > 0
    /\ \E i \in 1..Len(layouts) : selectedLayoutId' = layouts[i].id
    /\ UNCHANGED <<data, relatedData, layouts, loading, layoutLoading, error,
                   rdmPc, objDetails, rdmStore, rdmQuery, layoutReply,
                   lookupSucceeds>>
    /\ UNCHANGED rdmRest

(***************************************************************************)
(* MetadataDictionary: handleSelectObject                                  *)
(***************************************************************************)

\* Bound: describe requests of one entity in flight at the same time.
MaxDescribesInFlight == 2

\* data.objects: what the global describe lists, fields not yet loaded.
ListedObject(apiName) ==
    [apiName |-> apiName, label |-> apiName, isCustom |-> FALSE,
     recordCount |-> 0, fields |-> <<>>]

ObjectNames == {"Account", "Contact"}

\* The tabs of the detail pane.
TabButtons == {"overview", "fields", "dependencies", "access", "documentation"}

\* What fetchObjectDetails resolves with for an entity of the dictionary; the
\* record count is 0 when the count query failed.
DictDescribeResults ==
    [fields             : {<<[apiName |-> "Id", label |-> <<"b">>]>>},
     childRelationships : {<<>>},
     recordCount        : {0, 3}]

DictInit ==
    /\ selectedObject = None
    /\ loadingDetails = FALSE
    /\ cachedDetails = [n \in ObjectNames |-> None]
    /\ activeTab = "overview"
    /\ describesInFlight = [n \in ObjectNames |-> 0]
    /\ lastClicked = None
    /\ dictMounted = TRUE
    /\ everCached = {}
    /\ refetched = {}
    /\ lastResponse = None
    /\ surfacedErrors = <<>>

\* A click on an entity of the tree, up to the await of the describe.  A
\* describe asked for an entity that was cached earlier in the session is
\* recorded in refetched.
HandleSelectObject ==
    \E name \in ObjectNames :
       /\ dictMounted
       /\ activeTab' = "overview"
       /\ lastClicked' = Some(name)
       /\ lastResponse' = None
       /\ IF cachedDetails[name] # None
          THEN /\ selectedObject' = cachedDetails[name]
               /\ UNCHANGED <<loadingDetails, describesInFlight, refetched>>
          ELSE /\ describesInFlight[name] < MaxDescribesInFlight
               /\ selectedObject' = Some(ListedObject(name))
               /\ loadingDetails' = TRUE
               /\ describesInFlight' =
                     [describesInFlight EXCEPT ![name] = @ + 1]
               /\ refetched' = IF name \in everCached
                               THEN refetched \cup {name} ELSE refetched
       /\ UNCHANGED <<cachedDetails, dictMounted, everCached, surfacedErrors>>
       /\ UNCHANGED dictRest

\* The describe of an entity resolves: the continuation of the handler that
\* asked for it caches the enriched entity and selects it.
DescribeResolves ==
    \E name \in ObjectNames, details \in DictDescribeResults :
       /\ describesInFlight[name] > 0
       /\ LET enrichedObject == Spread(ListedObject(name), details)
          IN  /\ cachedDetails' = [cachedDetails EXCEPT ![name] = Some(enrichedObject)]
              /\ selectedObject' = Some(enrichedObject)
       /\ loadingDetails' = FALSE
       /\ describesInFlight' = [describesInFlight EXCEPT ![name] = @ - 1]
       /\ everCached' = everCached \cup {name}
       /\ lastResponse' = Some([name |-> name, ok |-> TRUE])
       /\ UNCHANGED <<activeTab, lastClicked, dictMounted, refetched,
                      surfacedErrors>>
       /\ UNCHANGED dictRest

\* The describe of an entity throws: the error is written to the console
\* and loading is cleared; nothing is shown to the user.
DescribeThrows ==
    \E name \in ObjectNames :
       /\ describesInFlight[name] > 0
       /\ loadingDetails' = FALSE
       /\ describesInFlight' = [describesInFlight EXCEPT ![name] = @ - 1]
       /\ lastResponse' = Some([name |-> name, ok |-> FALSE])
       /\ UNCHANGED <<selectedObject, cachedDetails, activeTab, lastClicked,
                      dictMounted, everCached, refetched, surfacedErrors>>
       /\ UNCHANGED dictRest

\* A click on a tab of the detail pane.
SetActiveTab ==
    /\ dictMounted
    /\ selectedObject # None
    /\ \E tab \in TabButtons : activeTab' = tab
    /\ UNCHANGED <<selectedObject, loadingDetails, cachedDetails,
                   describesInFlight, lastClicked, dictMounted, everCached,
                   refetched, lastResponse, surfacedErrors>>
    /\ UNCHANGED dictRest

\* The user opens another page of the application: the dictionary is
\* unmounted and its state, the cache included, is gone; what a describe
\* still in flight answers reaches no component.
AppLeavesDictionary ==
    /\ dictMounted
    /\ dictMounted' = FALSE
    /\ selectedObject' = None
    /\ loadingDetails' = FALSE
    /\ cachedDetails' = [n \in ObjectNames |-> None]
    /\ activeTab' = "overview"
    /\ describesInFlight' = [n \in ObjectNames |-> 0]
    /\ lastClicked' = None
    /\ lastResponse' = None
    /\ UNCHANGED <<everCached, refetched, surfacedErrors>>
    /\ UNCHANGED dictRest

\* The user comes back to the dictionary: it is mounted anew.
AppOpensDictionary ==
    /\ ~dictMounted
    /\ dictMounted' = TRUE
    /\ UNCHANGED <<selectedObject, loadingDetails, cachedDetails, activeTab,
                   describesInFlight, lastClicked, everCached, refetched,
                   lastResponse, surfacedErrors>>
    /\ UNCHANGED dictRest

(***************************************************************************)
(* DiagramEditor: handleGenerate                                           *)
(***************************************************************************)

\* Bound: generations (with their approval-step fetch) in flight at once.
MaxGenerations == 2

\* The diagram the mount effect shows.
InitialNodes ==
    <<[id |-> "1", type |-> "upn-activity", label |-> "New Lead Created",
       outcome |-> "Lead Captured"],
      [id |-> "2", type |-> "upn-activity", label |-> "Qualify Lead",
       outcome |-> "Decision Made"],
      [id |-> "3", type |-> "upn-activity", label |-> "Convert to Opportunity",
       outcome |-> "Opp Created"],
      [id |-> "4", type |-> "upn-activity", label |-> "Mark as Unqualified",
       outcome |-> "Lead Closed"]>>

InitialEdges ==
    <<[id |-> "e1-2", source |-> "1", target |-> "2"],
      [id |-> "e2-3", source |-> "2", target |-> "3"],
      [id |-> "e2-4", source |-> "2", target |-> "4"]>>

\* What the process-generation service can return: null, or a diagram whose
\* edges may name ids that no node carries.
RawNode(id) == [id |-> id, label |-> id]
RawEdge(source, target) == [source |-> source, target |-> target]

RawNodeLists ==
    {<<>>, <<RawNode("a")>>, <<RawNode("a"), RawNode("b")>>,
     <<RawNode("a"), RawNode("b"), RawNode("c")>>}

RawEdgeCandidates ==
    <<RawEdge("a", "b"), RawEdge("b", "c"), RawEdge("a", "x"), RawEdge("b", "a")>>

RawEdgeLists ==
    {FilterSeq(RawEdgeCandidates, keep) : keep \in SUBSET Range(RawEdgeCandidates)}

RawDiagrams ==
    {None} \cup {Some([nodes |-> ns, edges |-> es]) :
                    ns \in RawNodeLists, es \in RawEdgeLists}

\* The process definitions the mount effect can load.
ProcessLists ==
    {<<>>,
     <<[id |-> "std-opp", type |-> "Standard"]>>,
     <<[id |-> "std-opp", type |-> "Standard"],
       [id |-> "04a1", type |-> "Approval"]>>}

Prompts == {"", " ", "Order to Cash"}

\* customPrompt.trim()
trim(prompt) == IF prompt = " " THEN "" ELSE prompt

\* rawData.nodes.map(...): the generated nodes as activity nodes.
newNodesOf(rawData) ==
    [i \in 1..Len(rawData.nodes) |->
        [id |-> rawData.nodes[i].id, type |-> "upn-activity",
         label |-> rawData.nodes[i].label, outcome |-> "Done"]]

\* rawData.edges.map(...): every generated edge, with an id made of its ends.
newEdgesOf(rawData) ==
    [i \in 1..Len(rawData.edges) |->
        [id     |-> <<"e", rawData.edges[i].source, rawData.edges[i].target>>,
         source |-> rawData.edges[i].source,
         target |-> rawData.edges[i].target]]

\* getLayoutedElements: every node is registered with the layout engine and
\* gets a position from it, every edge is handed to the engine (which adds a
\* node of its own for an end it does not know) and returned as it came.  The
\* positions are not part of the model.
getLayoutedElements(ns, es) == [nodes |-> ns, edges |-> es]

DiagInit ==
    /\ nodes = getLayoutedElements(InitialNodes, InitialEdges).nodes
    /\ edges = getLayoutedElements(InitialNodes, InitialEdges).edges
    /\ isGenerating = FALSE
    /\ generationMode = "existing"
    /\ customPrompt = ""
    /\ availableProcesses = <<>>
    /\ selectedProcessId = ""
    /\ loadingProcesses = TRUE
    /\ stepsInFlight = 0
    /\ generationsInFlight = 0
    /\ lastGeneration = None

\* fetchOrgProcessDefinitions resolves in the mount effect.
ProcessesLoaded ==
    /\ loadingProcesses
    /\ \E procs \in ProcessLists :
          /\ availableProcesses' = procs
          /\ selectedProcessId' = IF Len(procs) > 0 THEN procs[1].id
                                  ELSE selectedProcessId
    /\ loadingProcesses' = FALSE
    /\ UNCHANGED <<nodes, edges, isGenerating, generationMode, customPrompt,
                   stepsInFlight, generationsInFlight>>
    /\ UNCHANGED lastGeneration
    /\ UNCHANGED diagRest

SetGenerationMode ==
    /\ \E mode \in {"existing", "custom"} : generationMode' = mode
    /\ UNCHANGED <<nodes, edges, isGenerating, customPrompt, availableProcesses,
                   selectedProcessId, loadingProcesses, stepsInFlight,
                   generationsInFlight>>
    /\ UNCHANGED lastGeneration
    /\ UNCHANGED diagRest

SetCustomPrompt ==
    /\ generationMode = "custom"
    /\ \E prompt \in Prompts : customPrompt' = prompt
    /\ UNCHANGED <<nodes, edges, isGenerating, generationMode,
                   availableProcesses, selectedProcessId, loadingProcesses,
                   stepsInFlight, generationsInFlight>>
    /\ UNCHANGED lastGeneration
    /\ UNCHANGED diagRest

SetSelectedProcessId ==
    /\ generationMode = "existing"
    /\ ~loadingProcesses
    /\ \E i \in 1..Len(availableProcesses) :
          selectedProcessId' = availableProcesses[i].id
    /\ UNCHANGED <<nodes, edges, isGenerating, generationMode, customPrompt,
                   availableProcesses, loadingProcesses, stepsInFlight,
                   generationsInFlight>>
    /\ UNCHANGED lastGeneration
    /\ UNCHANGED diagRest

\* handleGenerate up to its first await: it returns at once (through the
\* finally) on a blank prompt or when no process is selected, fetches the
\* steps of an approval process first, and otherwise asks for the diagram.
HandleGenerateStart ==
    /\ stepsInFlight + generationsInFlight < MaxGenerations
    /\ LET selectedProc ==
               {p \in Range(availableProcesses) : p.id = selectedProcessId}
           returnsAtOnce ==
               IF generationMode = "custom" THEN trim(customPrompt) = ""
               ELSE selectedProc = {}
           fetchesSteps ==
               /\ generationMode # "custom"
               /\ \E p \in selectedProc : p.type = "Approval"
       IN  IF returnsAtOnce
           THEN /\ isGenerating' = FALSE
                /\ UNCHANGED <<stepsInFlight, generationsInFlight>>
           ELSE /\ isGenerating' = TRUE
                /\ IF fetchesSteps
                   THEN /\ stepsInFlight' = stepsInFlight + 1
                        /\ UNCHANGED generationsInFlight
                   ELSE /\ generationsInFlight' = generationsInFlight + 1
                        /\ UNCHANGED stepsInFlight
    /\ UNCHANGED <<nodes, edges, generationMode, customPrompt,
                   availableProcesses, selectedProcessId, loadingProcesses,
                   lastGeneration>>

\* The Generate button, disabled while generating or without a prompt.
ClickGenerate ==
    /\ ~(isGenerating \/ (generationMode = "custom" /\ customPrompt = ""))
    /\ HandleGenerateStart
    /\ UNCHANGED diagRest

\* Enter in the custom prompt input.
PressEnterInPrompt ==
    /\ generationMode = "custom"
    /\ HandleGenerateStart
    /\ UNCHANGED diagRest

\* fetchApprovalProcessSteps resolves (it never throws); the diagram is asked
\* for next.
ApprovalStepsArrive ==
    /\ stepsInFlight > 0
    /\ stepsInFlight' = stepsInFlight - 1
    /\ generationsInFlight' = generationsInFlight + 1
    /\ UNCHANGED <<nodes, edges, isGenerating, generationMode, customPrompt,
                   availableProcesses, selectedProcessId, loadingProcesses>>
    /\ UNCHANGED lastGeneration
    /\ UNCHANGED diagRest

\* How a generation ended: without a result, with an empty node list, with a
\* diagram, or with an exception.
outcomeOf(rawData) ==
    IF rawData = None THEN "none"
    ELSE IF rawData[1].nodes = <<>> THEN "empty" ELSE "diagram"

\* generateDiagramFromRequirement resolves: a result with a node list
\* replaces the diagram; no alert is raised.
GenerateResolves ==
    /\ generationsInFlight > 0
    /\ \E rawData \in RawDiagrams :
          /\ IF rawData # None
             THEN LET layouted == getLayoutedElements(newNodesOf(rawData[1]),
                                                      newEdgesOf(rawData[1]))
                  IN  /\ nodes' = layouted.nodes
                      /\ edges' = layouted.edges
             ELSE UNCHANGED <<nodes, edges>>
          /\ lastGeneration' = Some([outcome |-> outcomeOf(rawData),
                                     alert |-> None])
    /\ isGenerating' = FALSE
    /\ generationsInFlight' = generationsInFlight - 1
    /\ UNCHANGED <<generationMode, customPrompt, availableProcesses,
                   selectedProcessId, loadingProcesses, stepsInFlight>>
    /\ UNCHANGED diagRest

\* generateDiagramFromRequirement throws: alert, the diagram stays.
GenerateThrows ==
    /\ generationsInFlight > 0
    /\ isGenerating' = FALSE
    /\ generationsInFlight' = generationsInFlight - 1
    /\ lastGeneration' = Some([outcome |-> "threw",
                               alert |-> Some("Failed to generate diagram.")])
    /\ UNCHANGED <<nodes, edges, generationMode, customPrompt,
                   availableProcesses, selectedProcessId, loadingProcesses,
                   stepsInFlight>>
    /\ UNCHANGED diagRest

(* DiagramEditor: impact analysis                                          *)
(***************************************************************************)

\* Bounds of the diagrams the analysis is run on.
MaxImpactNodes == 3
MaxImpactEdges == 3

\* The ids an edge can start or end at, and the ids the nodes carry.
ImpactIds == {"1", "2", "3"}
ImpactIdList == <<"1", "2", "3", "4">>

\* A node of the diagram as the analysis sees it: data.impactLevel and
\* style.opacity are absent until an analysis or a clearing has set them.
ImpactNode(id) == [id |-> id, impactLevel |-> None, opacity |-> None]

\* The node lists: the first n ids, so that an edge can end at an id that no
\* node carries and a node can be one that no edge touches.
ImpactNodeLists ==
    {[i \in 1..n |-> ImpactNode(ImpactIdList[i])] :
        n \in 0..Min({MaxImpactNodes, Len(ImpactIdList)})}

\* The edge lists: any ends, so also self-loops, cycles and repeated edges.
ImpactEdgeLists ==
    UNION {[1..n -> [source : ImpactIds, target : ImpactIds]] :
           n \in 0..MaxImpactEdges}

\* A traversal that follows the edges from target to source.
childrenOf_Sources(es, current) ==
    LET into == FilterSeq(es, {e \in Range(es) : e.target = current})
    IN  [i \in 1..Len(into) |-> into[i].source]

\* edges.filter(e => e.source === current).map(e => e.target)
childrenOf(es, current) ==
    LET out == FilterSeq(es, {e \in Range(es) : e.source = current})
    IN  [i \in 1..Len(out) |-> out[i].target]

\* The while loop: the head of the queue is taken and added to the set, and
\* its children that are not in the set are pushed.
RECURSIVE traverse(_, _, _)
traverse(queue, downstreamIds, es) ==
    IF queue = <<>> THEN downstreamIds
    ELSE LET current  == Head(queue)
             added    == downstreamIds \cup {current}
             children == childrenOf(es, current)
             pushed   == FilterSeq(children,
                                   {c \in Range(children) : c \notin added})
         IN  traverse(Tail(queue) \o pushed, added, es)

\* The map of setNodes in runImpactAnalysis.
annotate(n, startNodeId, downstreamIds) ==
    IF n.id = startNodeId
    THEN [n EXCEPT !.impactLevel = Some("critical"), !.opacity = Some("1")]
    ELSE IF n.id \in downstreamIds
    THEN [n EXCEPT !.impactLevel = Some("high"), !.opacity = Some("1")]
    ELSE [n EXCEPT !.impactLevel = Some("none"), !.opacity = Some("0.3")]

runImpactAnalysis(startNodeId, es, nds) ==
    LET downstreamIds == traverse(<<startNodeId>>, {}, es)
    IN  [i \in 1..Len(nds) |-> annotate(nds[i], startNodeId, downstreamIds)]

\* A version that resets only the nodes an analysis had dimmed.
clearImpactAnalysis_OnlyDimmed(nds) ==
    [i \in 1..Len(nds) |->
        IF nds[i].opacity = Some("0.3")
        THEN [nds[i] EXCEPT !.impactLevel = Some("none"), !.opacity = Some("1")]
        ELSE nds[i]]

\* setNodes(nds => nds.map(n => ({ ...n, impactLevel 'none', opacity 1 })))
clearImpactAnalysis(nds) ==
    [i \in 1..Len(nds) |->
        [nds[i] EXCEPT !.impactLevel = Some("none"), !.opacity = Some("1")]]

ImpactInit ==
    /\ impactNodes \in ImpactNodeLists
    /\ impactEdges \in ImpactEdgeLists
    /\ impactStart = None

\* A click on a node in impact mode.
ImpactNodeClick ==
    /\ \E n \in Range(impactNodes) :
          /\ impactNodes' = runImpactAnalysis(n.id, impactEdges, impactNodes)
          /\ impactStart' = Some(n.id)
    /\ UNCHANGED impactEdges
    /\ UNCHANGED impactRest

\* A click on the pane in impact mode.
ImpactPaneClick ==
    /\ impactNodes' = clearImpactAnalysis(impactNodes)
    /\ impactStart' = None
    /\ UNCHANGED impactEdges
    /\ UNCHANGED impactRest

(***************************************************************************)
(* getLayoutedElements: the layout helper of the diagram editor and of the *)
(* metadata dictionary                                                     *)
(***************************************************************************)

\* Bounds: the nodes of a graph handed to the helper, and the calls observed.
MaxLayoutNodes == 2
MaxLayoutCalls == 2

\* The two helpers.
LayoutHelpers == {"DiagramEditor", "MetadataDictionary"}

\* The bounding box of the dictionary's helper.
nodeWidth == 220
nodeHeight == 60

\* The bounding box a helper registers for every node.
registeredBox(helper) ==
    IF helper = "DiagramEditor" THEN [width |-> 200, height |-> 100]
    ELSE [width |-> nodeWidth, height |-> nodeHeight]

\* An adjustment by the whole box instead of half of it.
centreOffset_WholeBox(helper) ==
    [x |-> registeredBox(helper).width, y |-> registeredBox(helper).height]

\* What a helper subtracts from the anchor of a node.
centreOffset(helper) ==
    IF helper = "DiagramEditor" THEN [x |-> 100, y |-> 50]
    ELSE [x |-> nodeWidth \div 2, y |-> nodeHeight \div 2]

\* new dagre.graphlib.Graph() with setGraph({ rankdir }): no node, no edge.
newGraph(rankdir) == [rankdir |-> rankdir, nodes |-> <<>>, edges |-> {}]

\* dagreGraph.setNode(id, label)
setNode(g, id, label) ==
    [g EXCEPT !.nodes = Spread(@, [v \in {id} |-> Some(label)])]

\* dagreGraph.setEdge(source, target): an end that is no node of the graph
\* becomes one, without a label.
setEdge(g, source, target) ==
    [g EXCEPT !.nodes = Spread([v \in {source, target} |-> None], @),
              !.edges = @ \cup {<<source, target>>}]

\* nodes.forEach(node => dagreGraph.setNode(node.id, box))
RECURSIVE setNodes(_, _, _)
setNodes(g, ns, box) ==
    IF ns = <<>> THEN g
    ELSE setNodes(setNode(g, Head(ns).id, box), Tail(ns), box)

\* edges.forEach(edge => dagreGraph.setEdge(edge.source, edge.target))
RECURSIVE setEdges(_, _)
setEdges(g, es) ==
    IF es = <<>> THEN g
    ELSE setEdges(setEdge(g, Head(es).source, Head(es).target), Tail(es))

\* dagre.layout(g) and g.node(id): the anchor of a node is a function of the
\* graph the engine was handed, and of nothing else.
anchorOf(g, id) == [node |-> id, graph |-> g]

\* { x: nodeWithPosition.x - offset.x, y: nodeWithPosition.y - offset.y }
positionOf(anchor, offset) ==
    [x |-> [anchor |-> anchor, axis |-> "x", minus |-> offset.x],
     y |-> [anchor |-> anchor, axis |-> "y", minus |-> offset.y]]

\* The helper: a graph of its own for every call, every node registered with
\* the box, every edge handed over, the layout run and the positions read.
getLayoutedPositions(helper, ns, es, direction) ==
    LET dagreGraph == setEdges(setNodes(newGraph(direction), ns,
                                        registeredBox(helper)), es)
    IN  [nodes |-> [i \in 1..Len(ns) |->
                       [id       |-> ns[i].id,
                        position |-> positionOf(anchorOf(dagreGraph, ns[i].id),
                                                centreOffset(helper))]],
         edges |-> es]

\* The graphs handed to a helper.
LayoutIds == {"a", "b"}

LayoutNodeLists ==
    UNION {{[i \in 1..n |-> [id |-> ids[i]]] :
               ids \in {s \in [1..n -> LayoutIds] :
                           \A i, j \in 1..n : i # j => s[i] # s[j]}} :
           n \in 0..MaxLayoutNodes}

LayoutEdgeCandidates ==
    <<[source |-> "a", target |-> "b"], [source |-> "a", target |-> "x"]>>

LayoutEdgeLists ==
    {FilterSeq(LayoutEdgeCandidates, keep) :
        keep \in SUBSET Range(LayoutEdgeCandidates)}

\* The editor's helper always lays out top to bottom; the dictionary's takes
\* the direction as an argument.
Directions(helper) ==
    IF helper = "DiagramEditor" THEN {"TB"} ELSE {"LR", "TB"}

GraphLayoutInit ==
    /\ layoutHelper \in LayoutHelpers
    /\ layoutCalls = <<>>

\* One call of the helper.
GetLayoutedElements ==
    /\ Len(layoutCalls) < MaxLayoutCalls
    /\ \E ns \in LayoutNodeLists, es \in LayoutEdgeLists,
          direction \in Directions(layoutHelper) :
          layoutCalls' = Append(layoutCalls,
              [nodes |-> ns, edges |-> es, direction |-> direction,
               result |-> getLayoutedPositions(layoutHelper, ns, es, direction)])
    /\ UNCHANGED layoutHelper
    /\ UNCHANGED graphLayoutRest

(***************************************************************************)
(* MetadataDictionary: generateDependencyGraph                             *)
(***************************************************************************)

\* Bound: the fields of the selected entity that vary freely.
MaxDepFields == 2

\* The cap on the reference fields that are drawn.
DependencyCap == 15

\* A field of a describe; referenceTo is optional.
DepField(apiName, type, referenceTo) ==
    [apiName |-> apiName, label |-> <<"Label of", apiName>>, type |-> type,
     referenceTo |-> referenceTo]

\* What a field can look like: a text field (with or without targets), a
\* reference without targets, and references to one or two entities, to the
\* selected entity among them.
FieldShapes ==
    {[type |-> "string",    referenceTo |-> None],
     [type |-> "string",    referenceTo |-> Some(<<"B">>)],
     [type |-> "reference", referenceTo |-> None],
     [type |-> "reference", referenceTo |-> Some(<<>>)],
     [type |-> "reference", referenceTo |-> Some(<<"B">>)],
     [type |-> "reference", referenceTo |-> Some(<<"B", "C">>)],
     [type |-> "reference", referenceTo |-> Some(<<"C", "B">>)],
     [type |-> "reference", referenceTo |-> Some(<<"Account", "B">>)]}

\* m reference fields to the entity P, ahead of the fields that vary.
LeadingReferences(m) ==
    [i \in 1..m |-> DepField(<<"p", i>>, "reference", Some(<<"P">>))]

\* The field lists: none, one short of the cap or the cap of leading
\* references, then up to MaxDepFields fields of any shape.
DepFieldLists ==
    UNION {{LeadingReferences(m) \o
               [i \in 1..n |-> DepField(<<"f", i>>, shapes[i].type,
                                        shapes[i].referenceTo)] :
               m \in {0, DependencyCap - 1, DependencyCap},
               shapes \in [1..n -> FieldShapes]} :
           n \in 0..MaxDepFields}

\* The entity the dependency explorer is opened on.
DepObjects ==
    {[apiName |-> "Account", label |-> "Account", fields |-> fields] :
        fields \in DepFieldLists}

\* A version that takes the last listed target.
targetObjName_LastListed(field) ==
    field.referenceTo[1][Len(field.referenceTo[1])]

\* field.referenceTo![0]
targetObjName(field) == field.referenceTo[1][1]

\* A selection that cuts the field list at the cap before it filters.
referenceFields_SliceFirst(fields) ==
    LET first == SliceTo(fields, DependencyCap)
    IN  FilterSeq(first, {f \in Range(first) : /\ f.type = "reference"
                                               /\ f.referenceTo # None
                                               /\ Len(f.referenceTo[1]) > 0})

\* fields.filter(reference-typed with a non-empty referenceTo).slice(0, 15)
referenceFields(fields) ==
    SliceTo(FilterSeq(fields,
                {f \in Range(fields) : /\ f.type = "reference"
                                       /\ f.referenceTo # None
                                       /\ Len(f.referenceTo[1]) > 0}),
            DependencyCap)

\* referenceFields.forEach: a node for a target that has none yet, and an
\* edge for the field.
RECURSIVE addReferences(_, _, _, _)
addReferences(refs, source, initialNodes, initialEdges) ==
    IF refs = <<>> THEN [nodes |-> initialNodes, edges |-> initialEdges]
    ELSE LET field  == Head(refs)
             target == targetObjName(field)
             known  == \E n \in Range(initialNodes) : n.id = target
         IN  addReferences(Tail(refs), source,
                 IF known THEN initialNodes
                 ELSE Append(initialNodes,
                             [id |-> target, type |-> "default",
                              label |-> target]),
                 Append(initialEdges,
                        [id     |-> <<"e", field.apiName>>,
                         source |-> source,
                         target |-> target,
                         label  |-> field.label]))

\* A version that pushes a node for every retained field, known target or
\* not.
generateDependencyGraph_NodePerField(obj) ==
    LET centre == [id |-> obj.apiName, type |-> "input", label |-> obj.label]
        refs   == referenceFields(obj.fields)
    IN  getLayoutedElements(
            <<centre>> \o [i \in 1..Len(refs) |->
                              [id |-> targetObjName(refs[i]), type |-> "default",
                               label |-> targetObjName(refs[i])]],
            [i \in 1..Len(refs) |->
                [id     |-> <<"e", refs[i].apiName>>,
                 source |-> obj.apiName,
                 target |-> targetObjName(refs[i]),
                 label  |-> refs[i].label]])

\* generateDependencyGraph: the selected entity as the centre node, the
\* references, then the layout, which keeps the ids and the edges.
generateDependencyGraph(obj) ==
    LET centre == [id |-> obj.apiName, type |-> "input", label |-> obj.label]
        built  == addReferences(referenceFields(obj.fields), obj.apiName,
                                <<centre>>, <<>>)
    IN  getLayoutedElements(built.nodes, built.edges)

DepInit ==
    /\ depObject \in DepObjects
    /\ depNodes = <<>>
    /\ depEdges = <<>>

\* The effect that runs generateDependencyGraph when the explorer is open.
GenerateDependencyGraph ==
    /\ depNodes = <<>>
    /\ depNodes' = generateDependencyGraph(depObject).nodes
    /\ depEdges' = generateDependencyGraph(depObject).edges
    /\ UNCHANGED depObject
    /\ UNCHANGED depRest

(***************************************************************************)
(* App: handleLogin and authenticate                                       *)
(***************************************************************************)

\* Bound: the logins submitted in one run.
MaxLogins == 3

\* What the login form submits.
Credentials ==
    [username : {"amy@acme.com"}, orgType : {"Production", "Sandbox"}]

\* The host the login request goes to.
loginHost(creds) ==
    IF creds.orgType = "Sandbox" THEN "test.salesforce.com"
    ELSE "login.salesforce.com"

\* The errors thrown inside authenticate before its catch: a fault answer to
\* the login request, a failed fetch, an answer without a session id, a
\* failed global describe, and an error that carries no message.
LoginErrors ==
    {"Login failed: INVALID_LOGIN", "Failed to fetch",
     "Invalid response from Salesforce: Missing session ID or Server URL"}

DescribeErrors == {"Failed to fetch global metadata (500)", ""}

\* throw new Error(error.message || "Authentication failed.")
authenticateError(message) ==
    IF message = "" THEN "Authentication failed." ELSE message

\* setError(err.message || "Login failed. Please verify ...")
loginErrorShown(message) ==
    IF message = ""
    THEN "Login failed. Please verify credentials and CORS settings."
    ELSE message

\* The org names authenticate can resolve with; the first is the default
\* kept when the Organization query fails or returns no row.
OrgNames == {"Salesforce Org", "Acme"}

AppInit ==
    /\ appUser = None
    /\ appOrgData = None
    /\ appLoading = FALSE
    /\ appError = None
    /\ appActiveTab = "overview"
    /\ authPc = "idle"
    /\ loginRequests = <<>>
    /\ submits = 0
    /\ lastAuthError = None

\* The login form is submitted: handleLogin up to the login request.  The
\* form is shown while the user or the org data is missing, and its button
\* is disabled while loading.
HandleLogin ==
    /\ appUser = None \/ appOrgData = None
    /\ ~appLoading
    /\ submits < MaxLogins
    /\ \E creds \in Credentials :
          loginRequests' = Append(loginRequests,
                                  [host |-> loginHost(creds), creds |-> creds])
    /\ submits' = submits + 1
    /\ appLoading' = TRUE
    /\ appError' = None
    /\ authPc' = "login"
    /\ lastAuthError' = None
    /\ UNCHANGED <<appUser, appOrgData, appActiveTab>>
    /\ UNCHANGED appRest

\* A version whose catch does not reach the finally.
HandleLoginCatch_KeepsLoading(message) ==
    /\ appError' = Some(loginErrorShown(authenticateError(message)))
    /\ appLoading' = TRUE
    /\ authPc' = "idle"
    /\ lastAuthError' = Some(message)
    /\ UNCHANGED <<appUser, appOrgData, appActiveTab, loginRequests, submits>>

\* authenticate throws: the catch and the finally of handleLogin.
HandleLoginCatch(message) ==
    /\ appError' = Some(loginErrorShown(authenticateError(message)))
    /\ appLoading' = FALSE
    /\ authPc' = "idle"
    /\ lastAuthError' = Some(message)
    /\ UNCHANGED <<appUser, appOrgData, appActiveTab, loginRequests, submits>>

\* The login request fails or its answer carries no session.
AuthLoginFails ==
    /\ authPc = "login"
    /\ \E message \in LoginErrors : HandleLoginCatch(message)
    /\ UNCHANGED appRest

\* The login request answers with a session: the global describe is sent.
AuthLoginOk ==
    /\ authPc = "login"
    /\ authPc' = "describe"
    /\ UNCHANGED <<appUser, appOrgData, appLoading, appError, appActiveTab,
                   loginRequests, submits, lastAuthError>>
    /\ UNCHANGED appRest

\* The global describe fails.
AuthDescribeFails ==
    /\ authPc = "describe"
    /\ \E message \in DescribeErrors : HandleLoginCatch(message)
    /\ UNCHANGED appRest

\* The global describe answers: the Organization query is sent.
AuthDescribeOk ==
    /\ authPc = "describe"
    /\ authPc' = "orgName"
    /\ UNCHANGED <<appUser, appOrgData, appLoading, appError, appActiveTab,
                   loginRequests, submits, lastAuthError>>
    /\ UNCHANGED appRest

\* The Organization query ends, with a name or not: authenticate resolves,
\* handleLogin sets the user and the org data, and the finally runs.
AuthResolves ==
    /\ authPc = "orgName"
    /\ \E orgName \in OrgNames :
          appOrgData' = Some([orgName |-> orgName,
                              host |-> loginRequests[Len(loginRequests)].host])
    /\ appUser' = Some(loginRequests[Len(loginRequests)].creds)
    /\ appLoading' = FALSE
    /\ authPc' = "idle"
    /\ UNCHANGED <<appError, appActiveTab, loginRequests, submits,
                   lastAuthError>>
    /\ UNCHANGED appRest

\* The pages of the application.
AppTabs == {"overview", "dictionary", "diagrams", "soql", "gpt"}

\* Layout's onTabChange, once logged in.
SetAppActiveTab ==
    /\ appUser # None /\ appOrgData # None
    /\ \E tab \in AppTabs : appActiveTab' = tab
    /\ UNCHANGED <<appUser, appOrgData, appLoading, appError, authPc,
                   loginRequests, submits, lastAuthError>>
    /\ UNCHANGED appRest

HandleLogout ==
    /\ appUser # None /\ appOrgData # None
    /\ appUser' = None
    /\ appOrgData' = None
    /\ appActiveTab' = "overview"
    /\ appError' = None
    /\ UNCHANGED <<appLoading, authPc, loginRequests, submits, lastAuthError>>
    /\ UNCHANGED appRest

(***************************************************************************)
(* SoqlExplorer: handleExecute, the autocomplete of handleKeyDown, and     *)
(* fetchQuery                                                              *)
(***************************************************************************)

\* Bounds: the executions started in one run, the autocomplete describes in
\* flight at once, and the field insertions into one query text.
MaxExecutes == 2
MaxAutocompletes == 1
MaxInsertions == 1

\* The query texts: the one the explorer starts with, one without a FROM
\* clause, a blank one and the empty one; inserted counts the field lists
\* that the autocomplete has inserted into the text.
InitialQueryText ==
    "SELECT Id, Name, Type, CreatedDate FROM Account ORDER BY CreatedDate DESC LIMIT 10"

QueryTexts == {InitialQueryText, "SELECT Id", " ", ""}

QueryOf(text) == [text |-> text, inserted |-> 0]

\* query.trim()
trimmed(q) == IF q.text = " " /\ q.inserted = 0 THEN "" ELSE q.text

\* query.match(/FROM\s+(\w+)/i)
fromMatch(q) == IF q.text = InitialQueryText THEN Some("Account") ELSE None

\* The text with the field names inserted at the cursor.
withFieldsInserted(q) == [q EXCEPT !.inserted = @ + 1]

\* What the query request can end with when it fails: no answer at all, or
\* an HTTP error whose body is a JSON array (with a message in its first
\* element or without), another JSON value, or a text that is no JSON.
ErrorReplies ==
    {[kind |-> "network", json |-> FALSE, array |-> FALSE, message |-> ""],
     [kind |-> "http", json |-> TRUE, array |-> TRUE,
      message |-> "MALFORMED_QUERY: unexpected token: FORM"],
     [kind |-> "http", json |-> TRUE, array |-> TRUE, message |-> ""],
     [kind |-> "http", json |-> TRUE, array |-> FALSE,
      message |-> "Proxy quota exceeded"],
     [kind |-> "http", json |-> FALSE, array |-> FALSE,
      message |-> "Service Unavailable"]}

\* The message of the TypeError of Response.text() on a body that
\* Response.json() has already read.
BodyAlreadyRead ==
    "Failed to execute 'text' on 'Response': body stream already read"

\* await res.text(): the text of the body, unless the body was read before.
responseText(reply, bodyUsed) ==
    IF bodyUsed THEN BodyAlreadyRead ELSE reply.message

\* The message of the error fetchQuery throws: the one of the failed fetch,
\* or for an HTTP error the message of the first element of the JSON array,
\* "Query Failed" for any other JSON, and for a body that is no JSON what
\* res.text() gives after res.json() has read the body.
fetchQueryError(reply) ==
    IF reply.kind = "network" THEN "Failed to fetch"
    ELSE IF reply.json
         THEN IF reply.array /\ reply.message # ""
              THEN reply.message ELSE "Query Failed"
         ELSE responseText(reply, TRUE)

\* setError(err.message || "Query execution failed")
executeErrorShown(message) ==
    IF message = "" THEN "Query execution failed" ELSE message

\* What a query resolves with.
QueryResults(execution) ==
    {[execution |-> execution, totalSize |-> n] : n \in {0, 2}}

\* The field lists a describe gives the autocomplete.
AutocompleteFields == {<<>>, <<"Id", "Name">>}

SoqlInit ==
    /\ soqlQuery = QueryOf(InitialQueryText)
    /\ soqlResults = None
    /\ soqlLoading = FALSE
    /\ soqlError = None
    /\ cachedObjectFields = None
    /\ executeLog = <<>>
    /\ pendingExecutes = {}
    /\ pendingAutocompletes = <<>>
    /\ executeClicks = 0
    /\ lastExecuteError = None

\* The textarea's onChange.
SetQuery ==
    /\ \E text \in QueryTexts : soqlQuery' = QueryOf(text)
    /\ UNCHANGED <<soqlResults, soqlLoading, soqlError, cachedObjectFields,
                   executeLog, pendingExecutes, pendingAutocompletes,
                   executeClicks, lastExecuteError>>
    /\ UNCHANGED soqlRest

\* The Execute button (disabled while loading or without a text) on a text
\* that is not blank: handleExecute up to the await.  On a blank text the
\* handler returns at once and changes nothing.
HandleExecute ==
    /\ ~(soqlLoading \/ soqlQuery.text = "")
    /\ trimmed(soqlQuery) # ""
    /\ Len(executeLog) < MaxExecutes
    /\ soqlLoading' = TRUE
    /\ soqlError' = None
    /\ soqlResults' = None
    /\ executeLog' = Append(executeLog, soqlQuery)
    /\ pendingExecutes' = pendingExecutes \cup {Len(executeLog) + 1}
    /\ executeClicks' = executeClicks + 1
    /\ lastExecuteError' = None
    /\ UNCHANGED <<soqlQuery, cachedObjectFields, pendingAutocompletes>>
    /\ UNCHANGED soqlRest

\* executeSoql resolves.
ExecuteResolves ==
    /\ \E execution \in pendingExecutes :
          /\ \E result \in QueryResults(execution) : soqlResults' = Some(result)
          /\ pendingExecutes' = pendingExecutes \ {execution}
    /\ soqlLoading' = FALSE
    /\ lastExecuteError' = None
    /\ UNCHANGED <<soqlQuery, soqlError, cachedObjectFields, executeLog,
                   pendingAutocompletes, executeClicks>>
    /\ UNCHANGED soqlRest

\* executeSoql throws: the catch and the finally of handleExecute.
ExecuteThrows ==
    /\ \E execution \in pendingExecutes, reply \in ErrorReplies :
          /\ soqlError' = Some(executeErrorShown(fetchQueryError(reply)))
          /\ pendingExecutes' = pendingExecutes \ {execution}
          /\ lastExecuteError' = Some(reply)
    /\ soqlLoading' = FALSE
    /\ UNCHANGED <<soqlQuery, soqlResults, cachedObjectFields, executeLog,
                   pendingAutocompletes, executeClicks>>
    /\ UNCHANGED soqlRest

\* Ctrl+Space in a text with a FROM clause: the cached fields are inserted,
\* or the describe of the object is asked for.  Without a FROM clause the
\* handler raises an alert and changes nothing.
HandleKeyDown ==
    /\ fromMatch(soqlQuery) # None
    /\ IF cachedObjectFields # None
       THEN /\ cachedObjectFields[1] # <<>>
            /\ soqlQuery.inserted < MaxInsertions
            /\ soqlQuery' = withFieldsInserted(soqlQuery)
            /\ UNCHANGED <<soqlLoading, pendingAutocompletes, lastExecuteError>>
       ELSE /\ Len(pendingAutocompletes) < MaxAutocompletes
            /\ soqlLoading' = TRUE
            /\ pendingAutocompletes' = Append(pendingAutocompletes, soqlQuery)
            /\ lastExecuteError' = None
            /\ UNCHANGED soqlQuery
    /\ UNCHANGED <<soqlResults, soqlError, cachedObjectFields, executeLog,
                   pendingExecutes, executeClicks>>
    /\ UNCHANGED soqlRest

\* The describe of the autocomplete resolves: the fields are cached, loading
\* is cleared and the fields are inserted into the text the handler read
\* when the key was pressed.
AutocompleteResolves ==
    /\ pendingAutocompletes # <<>>
    /\ \E fields \in AutocompleteFields :
          /\ cachedObjectFields' = Some(fields)
          /\ soqlQuery' =
                IF fields # <<>> /\ Head(pendingAutocompletes).inserted < MaxInsertions
                THEN withFieldsInserted(Head(pendingAutocompletes))
                ELSE soqlQuery
    /\ pendingAutocompletes' = Tail(pendingAutocompletes)
    /\ soqlLoading' = FALSE
    /\ lastExecuteError' = None
    /\ UNCHANGED <<soqlResults, soqlError, executeLog, pendingExecutes,
                   executeClicks>>
    /\ UNCHANGED soqlRest

\* The describe of the autocomplete throws.
AutocompleteThrows ==
    /\ pendingAutocompletes # <<>>
    /\ pendingAutocompletes' = Tail(pendingAutocompletes)
    /\ soqlError' = Some("Could not fetch fields for Account")
    /\ soqlLoading' = FALSE
    /\ lastExecuteError' = None
    /\ UNCHANGED <<soqlQuery, soqlResults, cachedObjectFields, executeLog,
                   pendingExecutes, executeClicks>>
    /\ UNCHANGED soqlRest

(***************************************************************************)
(* DiagramEditor: the loop of runImpactAnalysis, one iteration at a time   *)
(***************************************************************************)

\* Bound: the edges of a graph the loop is followed on.
MaxTraversalEdges == 3

TraversalEdgeLists ==
    UNION {[1..n -> [source : ImpactIds, target : ImpactIds]] :
           n \in 0..MaxTraversalEdges}

\* A forEach that pushes every child.
pushedOf_NoCheck(children, downstream) == children

\* children.forEach(c => { if (!downstreamIds.has(c)) queue.push(c) })
pushedOf(children, downstream) ==
    FilterSeq(children, {c \in Range(children) : c \notin downstream})

\* const downstreamIds = new Set(); const queue = [startNodeId]
TraversalInit ==
    /\ travEdges \in TraversalEdgeLists
    /\ \E startNodeId \in ImpactIds : travQueue = <<startNodeId>>
    /\ travDownstreamIds = {}
    /\ travPushed = <<>>
    /\ travPc = "loop"

\* One iteration of the while loop.
TraversalIteration ==
    /\ travPc = "loop"
    /\ Len(travQueue) > 0
    /\ LET current  == Head(travQueue)
           added    == travDownstreamIds \cup {current}
           children == childrenOf(travEdges, current)
           pushed   == pushedOf(children, added)
       IN  /\ travDownstreamIds' = added
           /\ travPushed' = pushed
           /\ travQueue' = Tail(travQueue) \o pushed
    /\ UNCHANGED <<travEdges, travPc>>
    /\ UNCHANGED traversalRest

\* The loop ends on the empty queue.
TraversalExit ==
    /\ travPc = "loop"
    /\ Len(travQueue) = 0
    /\ travPc' = "done"
    /\ travPushed' = <<>>
    /\ UNCHANGED <<travEdges, travQueue, travDownstreamIds>>
    /\ UNCHANGED traversalRest

(***************************************************************************)
(* DiagramEditor: impact mode and the handlers that read or change the     *)
(* diagram                                                                 *)
(***************************************************************************)

\* Bound: the edges of the diagram in impact mode.
MaxModeEdges == 2

\* The ids of the nodes, and a node as a diagram brings it: with its label
\* and without impact level or opacity.
ModeIds == <<"1", "2">>

ModeNode(id) ==
    [id |-> id, label |-> <<"Activity", id>>, impactLevel |-> None,
     opacity |-> None]

ModeNodeLists == {[i \in 1..n |-> ModeNode(ModeIds[i])] : n \in 1..Len(ModeIds)}

idsOf(nds) == {nds[i].id : i \in 1..Len(nds)}

\* The diagrams a generation or the mount effect can set: any of the node
\* lists with at most one edge between its nodes.
ModeDiagrams ==
    UNION {{[nodes |-> nds, edges |-> es] :
               es \in {<<>>} \cup {<<[source |-> s, target |-> t]>> :
                                      s \in idsOf(nds), t \in idsOf(nds)}} :
           nds \in ModeNodeLists}

\* addEdge of the diagram library: the connection is appended unless an edge
\* with the same ends is there.
addEdge(connection, eds) ==
    IF \E i \in 1..Len(eds) : eds[i] = connection THEN eds
    ELSE Append(eds, connection)

\* The first render has no node and no edge, and onNodeClick is created in
\* it; the mount effect then sets the initial diagram.
ModeInit ==
    /\ \E d \in ModeDiagrams : modeNodes = d.nodes /\ modeEdges = d.edges
    /\ selectedNode = None
    /\ impactMode = FALSE
    /\ clickEdges = <<>>
    /\ lastHandler = "mount"

\* toggleImpactMode; the render that follows creates onNodeClick anew, with
\* the runImpactAnalysis and so the edges of that render.
ToggleImpactMode ==
    /\ impactMode' = ~impactMode
    /\ modeNodes' = IF ~impactMode' THEN clearImpactAnalysis(modeNodes) ELSE modeNodes
    /\ clickEdges' = modeEdges
    /\ lastHandler' = "toggleImpactMode"
    /\ UNCHANGED <<modeEdges, selectedNode>>
    /\ UNCHANGED modeRest

\* onNodeClick: useCallback with the dependency impactMode, so the
\* runImpactAnalysis it calls reads the edges of the render in which impact
\* mode last changed; setNodes maps the nodes of the moment.
OnNodeClick ==
    /\ \E i \in 1..Len(modeNodes) :
          /\ selectedNode' = Some(modeNodes[i].id)
          /\ modeNodes' = IF impactMode
                          THEN runImpactAnalysis(modeNodes[i].id, clickEdges,
                                                 modeNodes)
                          ELSE modeNodes
    /\ lastHandler' = "onNodeClick"
    /\ UNCHANGED <<modeEdges, impactMode, clickEdges>>
    /\ UNCHANGED modeRest

\* onPaneClick
OnPaneClick ==
    /\ selectedNode' = None
    /\ modeNodes' = IF impactMode THEN clearImpactAnalysis(modeNodes) ELSE modeNodes
    /\ lastHandler' = "onPaneClick"
    /\ UNCHANGED <<modeEdges, impactMode, clickEdges>>
    /\ UNCHANGED modeRest

\* onConnect: a connection drawn between two nodes of the diagram.
OnConnect ==
    /\ \E s \in idsOf(modeNodes), t \in idsOf(modeNodes) :
          /\ modeEdges' = addEdge([source |-> s, target |-> t], modeEdges)
          /\ Len(modeEdges') <= MaxModeEdges
    /\ lastHandler' = "onConnect"
    /\ UNCHANGED <<modeNodes, selectedNode, impactMode, clickEdges>>
    /\ UNCHANGED modeRest

\* The end of a generation: setNodes(layouted.nodes), setEdges(layouted.edges).
DiagramGenerated ==
    /\ \E d \in ModeDiagrams : modeNodes' = d.nodes /\ modeEdges' = d.edges
    /\ lastHandler' = "handleGenerate"
    /\ UNCHANGED <<selectedNode, impactMode, clickEdges>>
    /\ UNCHANGED modeRest

(***************************************************************************)
(* fetchOrgProcessDefinitions                                              *)
(***************************************************************************)

\* Bound: the rows one of the five queries returns.
MaxProcessRows == 2

\* What a query can end with: a failure (fetchQuery throws), a result
\* without a records list, or a result with a list of rows; row k of a query
\* carries the columns the query selects.
ProcessRow(k) ==
    [MasterLabel |-> <<"stage", k>>, Id |-> <<"id", k>>,
     Name |-> <<"name", k>>, Label |-> <<"label", k>>,
     TableEnumOrId |-> "Account", ProcessType |-> "Flow",
     Description |-> IF k = 1 THEN None ELSE Some("described")]

ProcessReplies ==
    {[ok |-> FALSE, records |-> None], [ok |-> TRUE, records |-> None]} \cup
    {[ok |-> TRUE, records |-> Some([k \in 1..n |-> ProcessRow(k)])] :
        n \in 0..MaxProcessRows}

\* The three standard definitions: id, label and object type.
StandardOpp  == [id |-> "std-opp", label |-> "Opportunity Sales Process",
                 objectType |-> "Opportunity"]
StandardLead == [id |-> "std-lead", label |-> "Lead Qualification",
                 objectType |-> "Lead"]
StandardCase == [id |-> "std-case", label |-> "Support Process",
                 objectType |-> "Case"]

\* A definition as the function pushes it; steps is absent for approval
\* processes and flows.
ProcessDefinition(id, label, type, objectType, description, steps) ==
    [id |-> id, label |-> label, type |-> type, objectType |-> objectType,
     description |-> description, steps |-> steps]

\* A version that pushes the standard definition for an empty list of rows.
pushStandard_EmptyToo(results, std, reply) ==
    IF reply.ok /\ reply.records # None
    THEN Append(results,
                ProcessDefinition(std.id, std.label, "Standard", std.objectType,
                    <<"Standard lifecycle", std.objectType>>,
                    Some([k \in 1..Len(reply.records[1]) |->
                             reply.records[1][k].MasterLabel])))
    ELSE results

\* One of the first three try blocks: the definition is pushed when the
\* query returned rows; a failure is caught and nothing is pushed.
pushStandard(results, std, reply) ==
    IF reply.ok /\ reply.records # None /\ Len(reply.records[1]) > 0
    THEN Append(results,
                ProcessDefinition(std.id, std.label, "Standard", std.objectType,
                    <<"Standard lifecycle", std.objectType>>,
                    Some([k \in 1..Len(reply.records[1]) |->
                             reply.records[1][k].MasterLabel])))
    ELSE results

\* rec.Description || <a text made from the record>
descriptionOr(rec, fallback) ==
    IF rec.Description # None THEN rec.Description[1] ELSE fallback

\* The fourth try block: one definition per active approval process.
pushApprovals(results, reply) ==
    IF reply.ok /\ reply.records # None
    THEN results \o
         [k \in 1..Len(reply.records[1]) |->
             LET rec == reply.records[1][k]
             IN  ProcessDefinition(rec.Id, rec.Name, "Approval",
                     rec.TableEnumOrId,
                     descriptionOr(rec, <<"Approval process for",
                                          rec.TableEnumOrId>>),
                     None)]
    ELSE results

\* The fifth try block: one definition per active flow.
pushFlows(results, reply) ==
    IF reply.ok /\ reply.records # None
    THEN results \o
         [k \in 1..Len(reply.records[1]) |->
             LET rec == reply.records[1][k]
             IN  ProcessDefinition(rec.Id, rec.Label, "Flow", "Flow",
                     descriptionOr(rec, <<"Salesforce", rec.ProcessType>>),
                     None)]
    ELSE results

ProcDefInit ==
    /\ procResults = <<>>
    /\ procReplies = <<>>
    /\ procPc = "queries"

\* 1. Standard: Opportunity
QueryOpportunityStages ==
    /\ procPc = "queries" /\ Len(procReplies) = 0
    /\ \E reply \in ProcessReplies :
          /\ procResults' = pushStandard(procResults, StandardOpp, reply)
          /\ procReplies' = Append(procReplies, reply)
    /\ UNCHANGED procPc
    /\ UNCHANGED procDefRest

\* 2. Standard: Lead
QueryLeadStatus ==
    /\ procPc = "queries" /\ Len(procReplies) = 1
    /\ \E reply \in ProcessReplies :
          /\ procResults' = pushStandard(procResults, StandardLead, reply)
          /\ procReplies' = Append(procReplies, reply)
    /\ UNCHANGED procPc
    /\ UNCHANGED procDefRest

\* 3. Standard: Case
QueryCaseStatus ==
    /\ procPc = "queries" /\ Len(procReplies) = 2
    /\ \E reply \in ProcessReplies :
          /\ procResults' = pushStandard(procResults, StandardCase, reply)
          /\ procReplies' = Append(procReplies, reply)
    /\ UNCHANGED procPc
    /\ UNCHANGED procDefRest

\* 4. Approval Processes
QueryApprovalProcesses ==
    /\ procPc = "queries" /\ Len(procReplies) = 3
    /\ \E reply \in ProcessReplies :
          /\ procResults' = pushApprovals(procResults, reply)
          /\ procReplies' = Append(procReplies, reply)
    /\ UNCHANGED procPc
    /\ UNCHANGED procDefRest

\* 5. Flows
QueryFlows ==
    /\ procPc = "queries" /\ Len(procReplies) = 4
    /\ \E reply \in ProcessReplies :
          /\ procResults' = pushFlows(procResults, reply)
          /\ procReplies' = Append(procReplies, reply)
    /\ UNCHANGED procPc
    /\ UNCHANGED procDefRest

\* return results
ReturnProcessDefinitions ==
    /\ procPc = "queries" /\ Len(procReplies) = 5
    /\ procPc' = "resolved"
    /\ UNCHANGED <<procResults, procReplies>>
    /\ UNCHANGED procDefRest

(***************************************************************************)
(* Specifications: one per component, the other components at rest.        *)
(***************************************************************************)

LayoutAtRest == fieldsIn = <<>> /\ layoutOut = None

FrrAtRest ==
    /\ frrPc = "idle"
    /\ frrChildRels = <<>>
    /\ frrStore = [odd |-> 0, even |-> 0]
    /\ frrQuery = <<>>
    /\ frrOutcome = None
    /\ frrReplies = <<>>

RdmAtRest ==
    /\ data = None
    /\ relatedData = None
    /\ layouts = <<>>
    /\ selectedLayoutId = ""
    /\ loading = TRUE
    /\ layoutLoading = TRUE
    /\ error = None
    /\ rdmPc = "unmounted"
    /\ objDetails = None
    /\ rdmStore = [odd |-> 0, even |-> 0]
    /\ rdmQuery = <<>>
    /\ layoutReply = None
    /\ lookupSucceeds = FALSE

DictAtRest ==
    /\ selectedObject = None
    /\ loadingDetails = FALSE
    /\ cachedDetails = [n \in ObjectNames |-> None]
    /\ activeTab = "overview"
    /\ describesInFlight = [n \in ObjectNames |-> 0]
    /\ lastClicked = None
    /\ dictMounted = FALSE
    /\ everCached = {}
    /\ refetched = {}
    /\ lastResponse = None
    /\ surfacedErrors = <<>>

DiagAtRest ==
    /\ nodes = <<>>
    /\ edges = <<>>
    /\ isGenerating = FALSE
    /\ generationMode = "existing"
    /\ customPrompt = ""
    /\ availableProcesses = <<>>
    /\ selectedProcessId = ""
    /\ loadingProcesses = FALSE
    /\ stepsInFlight = 0
    /\ generationsInFlight = 0
    /\ lastGeneration = None

ImpactAtRest ==
    /\ impactNodes = <<>>
    /\ impactEdges = <<>>
    /\ impactStart = None

GraphLayoutAtRest ==
    /\ layoutHelper = "DiagramEditor"
    /\ layoutCalls = <<>>

DepAtRest ==
    /\ depObject = [apiName |-> "Account", label |-> "Account", fields |-> <<>>]
    /\ depNodes = <<>>
    /\ depEdges = <<>>

AppAtRest ==
    /\ appUser = None
    /\ appOrgData = None
    /\ appLoading = FALSE
    /\ appError = None
    /\ appActiveTab = "overview"
    /\ authPc = "unmounted"
    /\ loginRequests = <<>>
    /\ submits = 0
    /\ lastAuthError = None

SoqlAtRest ==
    /\ soqlQuery = [text |-> "", inserted |-> 0]
    /\ soqlResults = None
    /\ soqlLoading = FALSE
    /\ soqlError = None
    /\ cachedObjectFields = None
    /\ executeLog = <<>>
    /\ pendingExecutes = {}
    /\ pendingAutocompletes = <<>>
    /\ executeClicks = 0
    /\ lastExecuteError = None

TraversalAtRest ==
    /\ travEdges = <<>>
    /\ travQueue = <<>>
    /\ travDownstreamIds = {}
    /\ travPushed = <<>>
    /\ travPc = "done"

ModeAtRest ==
    /\ modeNodes = <<>>
    /\ modeEdges = <<>>
    /\ selectedNode = None
    /\ impactMode = FALSE
    /\ clickEdges = <<>>
    /\ lastHandler = "mount"

ProcDefAtRest ==
    /\ procResults = <<>>
    /\ procReplies = <<>>
    /\ procPc = "resolved"

\* createDefaultLayout on every field list within the bounds.
InitLayout ==
    /\ LayoutInit
    /\ FrrAtRest
    /\ RdmAtRest
    /\ DictAtRest
    /\ DiagAtRest
    /\ ImpactAtRest
    /\ GraphLayoutAtRest
    /\ DepAtRest
    /\ AppAtRest
    /\ SoqlAtRest
    /\ TraversalAtRest
    /\ ModeAtRest
    /\ ProcDefAtRest
NextLayout == CreateDefaultLayout
SpecLayout == InitLayout /\ [][NextLayout]_vars

\* fetchRecordWithRelated on every child relationship list within the bounds.
InitFrr ==
    /\ FrrInit
    /\ LayoutAtRest
    /\ RdmAtRest
    /\ DictAtRest
    /\ DiagAtRest
    /\ ImpactAtRest
    /\ GraphLayoutAtRest
    /\ DepAtRest
    /\ AppAtRest
    /\ SoqlAtRest
    /\ TraversalAtRest
    /\ ModeAtRest
    /\ ProcDefAtRest
NextFrr ==
    \/ FrrLookupFail
    \/ FrrLookupOk
    \/ FrrQueryEnds
SpecFrr == InitFrr /\ [][NextFrr]_vars

\* The record view from its mount.
InitRdm ==
    /\ RdmInit
    /\ LayoutAtRest
    /\ FrrAtRest
    /\ DictAtRest
    /\ DiagAtRest
    /\ ImpactAtRest
    /\ GraphLayoutAtRest
    /\ DepAtRest
    /\ AppAtRest
    /\ SoqlAtRest
    /\ TraversalAtRest
    /\ ModeAtRest
    /\ ProcDefAtRest
NextRdm ==
    \/ RdmDescribeFail
    \/ RdmDescribeOk
    \/ RdmLookupFail
    \/ RdmLookupOk
    \/ RdmQueryEnds
    \/ RdmLayoutsArrive
    \/ RdmSelectLayout
SpecRdm == InitRdm /\ [][NextRdm]_vars

\* The metadata dictionary from its mount.
InitDict ==
    /\ DictInit
    /\ LayoutAtRest
    /\ FrrAtRest
    /\ RdmAtRest
    /\ DiagAtRest
    /\ ImpactAtRest
    /\ GraphLayoutAtRest
    /\ DepAtRest
    /\ AppAtRest
    /\ SoqlAtRest
    /\ TraversalAtRest
    /\ ModeAtRest
    /\ ProcDefAtRest
NextDict ==
    \/ HandleSelectObject
    \/ DescribeResolves
    \/ DescribeThrows
    \/ SetActiveTab
    \/ AppLeavesDictionary
    \/ AppOpensDictionary
SpecDict == InitDict /\ [][NextDict]_vars

\* The diagram editor from its mount.
InitDiag ==
    /\ DiagInit
    /\ LayoutAtRest
    /\ FrrAtRest
    /\ RdmAtRest
    /\ DictAtRest
    /\ ImpactAtRest
    /\ GraphLayoutAtRest
    /\ DepAtRest
    /\ AppAtRest
    /\ SoqlAtRest
    /\ TraversalAtRest
    /\ ModeAtRest
    /\ ProcDefAtRest
NextDiag ==
    \/ ProcessesLoaded
    \/ SetGenerationMode
    \/ SetCustomPrompt
    \/ SetSelectedProcessId
    \/ ClickGenerate
    \/ PressEnterInPrompt
    \/ ApprovalStepsArrive
    \/ GenerateResolves
    \/ GenerateThrows
SpecDiag == InitDiag /\ [][NextDiag]_vars

\* The impact analysis on every diagram within the bounds.
InitImpact ==
    /\ ImpactInit
    /\ LayoutAtRest
    /\ FrrAtRest
    /\ RdmAtRest
    /\ DictAtRest
    /\ DiagAtRest
    /\ GraphLayoutAtRest
    /\ DepAtRest
    /\ AppAtRest
    /\ SoqlAtRest
    /\ TraversalAtRest
    /\ ModeAtRest
    /\ ProcDefAtRest
NextImpact ==
    \/ ImpactNodeClick
    \/ ImpactPaneClick
SpecImpact == InitImpact /\ [][NextImpact]_vars

\* The layout helpers on every graph within the bounds.
InitGraphLayout ==
    /\ GraphLayoutInit
    /\ LayoutAtRest
    /\ FrrAtRest
    /\ RdmAtRest
    /\ DictAtRest
    /\ DiagAtRest
    /\ ImpactAtRest
    /\ DepAtRest
    /\ AppAtRest
    /\ SoqlAtRest
    /\ TraversalAtRest
    /\ ModeAtRest
    /\ ProcDefAtRest
NextGraphLayout == GetLayoutedElements
SpecGraphLayout == InitGraphLayout /\ [][NextGraphLayout]_vars

\* generateDependencyGraph on every entity within the bounds.
InitDep ==
    /\ DepInit
    /\ LayoutAtRest
    /\ FrrAtRest
    /\ RdmAtRest
    /\ DictAtRest
    /\ DiagAtRest
    /\ ImpactAtRest
    /\ GraphLayoutAtRest
    /\ AppAtRest
    /\ SoqlAtRest
    /\ TraversalAtRest
    /\ ModeAtRest
    /\ ProcDefAtRest
NextDep == GenerateDependencyGraph
SpecDep == InitDep /\ [][NextDep]_vars

\* The application shell from its mount.
InitApp ==
    /\ AppInit
    /\ LayoutAtRest
    /\ FrrAtRest
    /\ RdmAtRest
    /\ DictAtRest
    /\ DiagAtRest
    /\ ImpactAtRest
    /\ GraphLayoutAtRest
    /\ DepAtRest
    /\ SoqlAtRest
    /\ TraversalAtRest
    /\ ModeAtRest
    /\ ProcDefAtRest
NextApp ==
    \/ HandleLogin
    \/ AuthLoginFails
    \/ AuthLoginOk
    \/ AuthDescribeFails
    \/ AuthDescribeOk
    \/ AuthResolves
    \/ SetAppActiveTab
    \/ HandleLogout
SpecApp == InitApp /\ [][NextApp]_vars

\* The query explorer from its mount.
InitSoql ==
    /\ SoqlInit
    /\ LayoutAtRest
    /\ FrrAtRest
    /\ RdmAtRest
    /\ DictAtRest
    /\ DiagAtRest
    /\ ImpactAtRest
    /\ GraphLayoutAtRest
    /\ DepAtRest
    /\ AppAtRest
    /\ TraversalAtRest
    /\ ModeAtRest
    /\ ProcDefAtRest
NextSoql ==
    \/ SetQuery
    \/ HandleExecute
    \/ ExecuteResolves
    \/ ExecuteThrows
    \/ HandleKeyDown
    \/ AutocompleteResolves
    \/ AutocompleteThrows
SpecSoql == InitSoql /\ [][NextSoql]_vars

\* The loop of the impact analysis on every graph within the bounds; the
\* loop is synchronous code, so an iteration that can be taken is taken.
InitTraversal ==
    /\ TraversalInit
    /\ LayoutAtRest
    /\ FrrAtRest
    /\ RdmAtRest
    /\ DictAtRest
    /\ DiagAtRest
    /\ ImpactAtRest
    /\ GraphLayoutAtRest
    /\ DepAtRest
    /\ AppAtRest
    /\ SoqlAtRest
    /\ ModeAtRest
    /\ ProcDefAtRest
NextTraversal ==
    \/ TraversalIteration
    \/ TraversalExit
SpecTraversal == InitTraversal /\ [][NextTraversal]_vars
FairSpecTraversal == SpecTraversal /\ WF_vars(NextTraversal)

\* The diagram editor's impact mode from the mount of the editor.
InitMode ==
    /\ ModeInit
    /\ LayoutAtRest
    /\ FrrAtRest
    /\ RdmAtRest
    /\ DictAtRest
    /\ DiagAtRest
    /\ ImpactAtRest
    /\ GraphLayoutAtRest
    /\ DepAtRest
    /\ AppAtRest
    /\ SoqlAtRest
    /\ TraversalAtRest
    /\ ProcDefAtRest
NextMode ==
    \/ ToggleImpactMode
    \/ OnNodeClick
    \/ OnPaneClick
    \/ OnConnect
    \/ DiagramGenerated
SpecMode == InitMode /\ [][NextMode]_vars

\* One call of fetchOrgProcessDefinitions.
InitProcDef ==
    /\ ProcDefInit
    /\ LayoutAtRest
    /\ FrrAtRest
    /\ RdmAtRest
    /\ DictAtRest
    /\ DiagAtRest
    /\ ImpactAtRest
    /\ GraphLayoutAtRest
    /\ DepAtRest
    /\ AppAtRest
    /\ SoqlAtRest
    /\ TraversalAtRest
    /\ ModeAtRest
NextProcDef ==
    \/ QueryOpportunityStages
    \/ QueryLeadStatus
    \/ QueryCaseStatus
    \/ QueryApprovalProcesses
    \/ QueryFlows
    \/ ReturnProcessDefinitions
SpecProcDef == InitProcDef /\ [][NextProcDef]_vars

(***************************************************************************)
(* Properties                                                               *)
(***************************************************************************)

\* C1: the entity the dictionary shows is the one clicked last: the response
\* of a describe asked for an earlier click never replaces it.
C1_StaleResponseGuard ==
    lastClicked # None =>
        /\ selectedObject # None
        /\ selectedObject[1].apiName = lastClicked[1]

C3_FailureIsolation ==
    (lookupSucceeds /\ ~loading) => (data = Some(BaseRecord) /\ error = None)

\* C4: fetchRecordWithRelated rejects only when the point lookup fails; when
\* the lookup succeeds it resolves with every scalar field of the record, and
\* with the empty relatedData when the query throws or returns no row.
C4_PartialFailureIsolation ==
    /\ frrPc = "rejected" => frrReplies = <<"lookupFail">>
    /\ (frrReplies # <<>> /\ frrReplies[1] = "lookupOk") =>
          frrPc \in {"query", "resolved"}
    /\ frrPc = "resolved" =>
          /\ frrOutcome # None
          /\ \A k \in DOMAIN BaseRecord :
                /\ k \in DOMAIN frrOutcome[1]
                /\ frrOutcome[1][k] = BaseRecord[k]
          /\ frrReplies[Len(frrReplies)] \in {"fail", "norow"} =>
                frrOutcome[1].relatedData = <<>>

C4_Witness ==
    /\ frrPc = "resolved"
    /\ frrReplies = <<"lookupOk", "fail">>
    /\ frrStore.odd = MaxChildRows
    /\ frrOutcome[1].relatedData = <<>>

\* C5: when the layout service fails or returns no layout, the view holds,
\* once the layouts are loaded, the synthetic default layout alone, selected,
\* and shows no error.
C5_LayoutFallback ==
    (/\ rdmPc = "done"
     /\ layoutReply # None
     /\ (layoutReply[1].kind # "list" \/ layoutReply[1].layouts = <<>>))
    => /\ ~layoutLoading
       /\ Len(layouts) = 1
       /\ layouts[1].id = SystemDefaultId
       /\ Len(layouts[1].detailLayoutSections) = 1
       /\ selectedLayoutId = SystemDefaultId
       /\ error = None
       /\ data = Some(BaseRecord)

C5_Witness ==
    /\ rdmPc = "done"
    /\ layoutReply # None
    /\ layoutReply[1].kind = "fail"
    /\ selectedLayoutId = SystemDefaultId
    /\ Len(objDetails[1].fields) = 2

\* The positions of the relationships that carry a name.
NamedPositions(childRels) ==
    {i \in 1..Len(childRels) : childRels[i].relationshipName # NoName}

\* The j-th smallest element of a set of numbers.
NthOf(P, j) == CHOOSE i \in P : Cardinality({p \in P : p <= i}) = j

\* C6: at most one query is sent; it is sent exactly when some relationship
\* carries a name, and its sub-selects are, in list order, the first 10
\* relationships that carry a name.
C6_RelationshipCap ==
    LET P == NamedPositions(frrChildRels)
        m == IF Cardinality(P) < 10 THEN Cardinality(P) ELSE 10
    IN  /\ Len(frrQuery) <= 1
        /\ frrPc \in {"query", "resolved"} => (frrQuery = <<>> <=> P = {})
        /\ \A q \in Range(frrQuery) :
              /\ Len(q.subqueries) = m
              /\ \A j \in 1..m :
                    q.subqueries[j].from =
                        frrChildRels[NthOf(P, j)].relationshipName

C6_Witness ==
    /\ Len(frrQuery) = 1
    /\ Cardinality(NamedPositions(frrChildRels)) > 10
    /\ Len(frrQuery[1].subqueries) = 10

RECURSIVE FlattenRows(_)
FlattenRows(rows) ==
    IF rows = <<>> THEN <<>>
    ELSE Head(rows).layoutItems \o FlattenRows(Tail(rows))

EmittedFields(layout) ==
    LET items == FlattenRows(layout.detailLayoutSections[1].layoutRows)
    IN  [i \in 1..Len(items) |->
            [apiName |-> items[i].layoutComponents[1].value,
             label   |-> items[i].label]]

\* Alphabetical order of two labels, the case of the letters set aside.
AlphabeticallyOrdered(x, y) ==
    LexCompare([i \in 1..Len(x) |-> PrimaryWeight(x[i])],
               [i \in 1..Len(y) |-> PrimaryWeight(y[i])]) <= 0

\* C8: the default layout shows every field once, Name first when there is
\* one, Id next when there is one, and the others in alphabetical order of
\* their labels.
C8_DefaultLayoutOrder ==
    layoutOut # None =>
        LET out      == EmittedFields(layoutOut[1])
            hasName  == \E f \in Range(fieldsIn) : f.apiName = "Name"
            hasId    == \E f \in Range(fieldsIn) : f.apiName = "Id"
            idAt     == IF hasName THEN 2 ELSE 1
            othersAt == (IF hasName THEN 1 ELSE 0) + (IF hasId THEN 1 ELSE 0) + 1
        IN  /\ Len(out) = Len(fieldsIn)
            /\ Range(out) = Range(fieldsIn)
            /\ hasName => out[1].apiName = "Name"
            /\ hasId => out[idAt].apiName = "Id"
            /\ \A i, j \in othersAt..Len(out) :
                  i < j => AlphabeticallyOrdered(out[i].label, out[j].label)

C8_Witness ==
    /\ layoutOut # None
    /\ Len(fieldsIn) = 4
    /\ fieldsIn[1].apiName = "Zip" /\ fieldsIn[1].label = <<"B">>
    /\ fieldsIn[2].apiName = "Id"
    /\ fieldsIn[3].apiName = "Name"
    /\ fieldsIn[4].apiName = "Phone" /\ fieldsIn[4].label = <<"a", "b">>
    /\ EmittedFields(layoutOut[1])[3].apiName = "Phone"

\* C9: the default layout has one section; each of its rows holds two items
\* but the last, which holds one or two; the rows, one after the other, are
\* the sorted fields, each as one 'Field' component.
C9_DefaultLayoutRows ==
    layoutOut # None =>
        LET sections == layoutOut[1].detailLayoutSections
            rows     == sections[1].layoutRows
            items    == FlattenRows(rows)
            sorted   == sortedFields(fieldsIn)
        IN  /\ Len(sections) = 1
            /\ \A r \in 1..Len(rows) :
                  /\ Len(rows[r].layoutItems) \in {1, 2}
                  /\ r < Len(rows) => Len(rows[r].layoutItems) = 2
            /\ Len(items) = Len(fieldsIn)
            /\ \A i \in 1..Len(items) :
                  /\ items[i].layoutComponents =
                        <<[type |-> "Field", value |-> sorted[i].apiName]>>
                  /\ items[i].label = sorted[i].label
            /\ \A f \in Range(fieldsIn) :
                  Cardinality({i \in 1..Len(items) :
                      items[i].layoutComponents[1].value = f.apiName}) = 1

C9_Witness ==
    /\ layoutOut # None
    /\ Len(fieldsIn) = 3
    /\ Len(layoutOut[1].detailLayoutSections[1].layoutRows) = 2
    /\ Len(layoutOut[1].detailLayoutSections[1].layoutRows[2].layoutItems) = 1

RECURSIVE ReachableFrom(_, _)
ReachableFrom(S, es) ==
    LET next == S \cup {e.target : e \in {e \in Range(es) : e.source \in S}}
    IN  IF next = S THEN S ELSE ReachableFrom(next, es)

ReferencePositions(fields) ==
    {i \in 1..Len(fields) : /\ fields[i].type = "reference"
                            /\ fields[i].referenceTo # None
                            /\ fields[i].referenceTo[1] # <<>>}

RetainedPositions(fields) ==
    {i \in ReferencePositions(fields) :
        Cardinality({p \in ReferencePositions(fields) : p <= i}) <= 15}

\* The edges of the dependency graph drawn for the field at position i.
EdgesOfField(i) ==
    {k \in 1..Len(depEdges) : depEdges[k].id = <<"e", depObject.fields[i].apiName>>}

\* C13 as stated: every reference field that lists several targets has
\* exactly one edge, from the selected entity to its first target.
C13_OneEdgePerMultiTargetField ==
    depNodes # <<>> =>
        \A i \in ReferencePositions(depObject.fields) :
            Len(depObject.fields[i].referenceTo[1]) > 1 =>
                /\ Cardinality(EdgesOfField(i)) = 1
                /\ \A k \in EdgesOfField(i) :
                      /\ depEdges[k].source = depObject.apiName
                      /\ depEdges[k].target = depObject.fields[i].referenceTo[1][1]

\* C13 as amended: a reference field that lists several targets has exactly
\* one edge, from the selected entity to its first target, when it is among
\* the first 15 reference fields with a target, and no edge otherwise; the
\* nodes are the selected entity and first targets of such fields, so that no
\* node and no edge exists on account of a target listed second or later.
C13_FirstTargetRule ==
    depNodes # <<>> =>
        LET fields   == depObject.fields
            retained == RetainedPositions(fields)
        IN  /\ \A i \in ReferencePositions(fields) :
                  Len(fields[i].referenceTo[1]) > 1 =>
                      /\ Cardinality(EdgesOfField(i)) =
                            IF i \in retained THEN 1 ELSE 0
                      /\ \A k \in EdgesOfField(i) :
                            /\ depEdges[k].source = depObject.apiName
                            /\ depEdges[k].target = fields[i].referenceTo[1][1]
            /\ {n.id : n \in Range(depNodes)} =
                  {depObject.apiName} \cup
                  {fields[i].referenceTo[1][1] : i \in retained}
            /\ Len(depEdges) = Cardinality(retained)

C13_Witness ==
    /\ depNodes # <<>>
    /\ Len(depObject.fields) = 2
    /\ depObject.fields[1].referenceTo = Some(<<"B", "C">>)
    /\ depObject.fields[2].referenceTo = Some(<<"C", "B">>)
    /\ depObject.fields[2].type = "reference"
    /\ Len(depEdges) = 2
    /\ depEdges[1].target = "B"
    /\ depEdges[2].target = "C"
    /\ Len(depNodes) = 3

\* C14: no describe is asked for an entity that was described and cached
\* earlier in the session.
C14_DescribeMemoization == refetched = {}

\* C15: under any interleaving of selections and describe responses in the
\* dictionary, an entry of the metadata cache, once there, keeps its value
\* and is not removed.
C15_CacheImmutability ==
    [][(dictMounted /\ dictMounted') =>
          \A n \in ObjectNames :
             cachedDetails[n] # None => cachedDetails'[n] = cachedDetails[n]]_vars

\* C17: when the last answer to a describe asked by the dictionary was a
\* failure, the dictionary shows the user an error with a message.
C17_DescribeFailureSurfaced ==
    (lastResponse # None /\ ~lastResponse[1].ok) => surfacedErrors # <<>>

\* C16: after a failed authentication the error message is stored (the
\* message of the failure when it has one), user and org data are unset so
\* that the login screen stays, loading is cleared, and as many login
\* requests have been sent as logins were submitted.
C16_LoginFailure ==
    /\ Len(loginRequests) = submits
    /\ lastAuthError # None =>
          /\ appError # None
          /\ appError[1] # ""
          /\ lastAuthError[1] # "" => appError[1] = lastAuthError[1]
          /\ appUser = None
          /\ appOrgData = None
          /\ ~appLoading
          /\ authPc = "idle"

C16_Witness ==
    /\ lastAuthError = Some("Login failed: INVALID_LOGIN")
    /\ appError = Some("Login failed: INVALID_LOGIN")
    /\ submits = 2
    /\ Len(loginRequests) = 2
    /\ ~appLoading

\* The message the query service reported with a failure: the message of
\* the first element of a JSON array, or the text of a body that is no JSON.
ReportedMessage(reply) ==
    IF reply.kind = "http" /\ reply.message # "" /\ (reply.array \/ ~reply.json)
    THEN Some(reply.message) ELSE None

\* C18: after an execution has failed, the error is the message the query
\* service reported, word for word (some error when it reported none), the
\* results are null, loading is cleared, and no query was sent but by a
\* click on Execute.
C18_QueryFailureVerbatim ==
    /\ Len(executeLog) = executeClicks
    /\ lastExecuteError # None =>
          /\ soqlError # None
          /\ ReportedMessage(lastExecuteError[1]) # None =>
                soqlError = ReportedMessage(lastExecuteError[1])
          /\ soqlResults = None
          /\ ~soqlLoading

C20_ZeroRowRelationshipsOmitted ==
    frrOutcome # None =>
        \A n \in DOMAIN frrOutcome[1].relatedData :
            frrOutcome[1].relatedData[n] # <<>>

\* C21: when the first layout the layout service returned has no detail
\* section, the view holds, once the layouts are loaded, the synthetic
\* default layout and has it selected.
C21_ZeroSectionLayoutAbsent ==
    (/\ rdmPc = "done"
     /\ layoutReply # None
     /\ layoutReply[1].kind = "list"
     /\ layoutReply[1].layouts # <<>>
     /\ layoutReply[1].layouts[1].detailLayoutSections = <<>>)
    => /\ layouts[1].id = SystemDefaultId
       /\ selectedLayoutId = SystemDefaultId

\* C22: on every graph the loop of the impact analysis ends, and no
\* iteration pushes an id that is in the set of visited ids.
C22_TraversalHandlesCycles ==
    /\ <>(travPc = "done")
    /\ [][\A i \in 1..Len(travPushed') :
             travPushed'[i] \notin travDownstreamIds']_vars

\* The loop has ended on a graph with a cycle, a self-loop and a repeated
\* edge, all of them on the way from the start.
C22_Witness ==
    /\ travPc = "done"
    /\ travEdges = <<[source |-> "1", target |-> "2"],
                     [source |-> "2", target |-> "1"],
                     [source |-> "2", target |-> "1"]>>
    /\ travDownstreamIds = {"1", "2"}

\* The step of a handler that calls clearImpactAnalysis: a pane click in
\* impact mode, or the toggle that switches impact mode off.
ClearingStep ==
    \/ impactMode /\ lastHandler' = "onPaneClick"
    \/ impactMode /\ ~impactMode' /\ lastHandler' = "toggleImpactMode"

\* C23: a clearing leaves every node with impact level 'none' and full
\* opacity, keeps the ids and labels of the nodes and the edges, and a second
\* clearing changes nothing.
C23_ClearIsIdempotentAndTotal ==
    [][ClearingStep =>
          /\ \A i \in 1..Len(modeNodes') :
                /\ modeNodes'[i].impactLevel = Some("none")
                /\ modeNodes'[i].opacity = Some("1")
          /\ Len(modeNodes') = Len(modeNodes)
          /\ \A i \in 1..Len(modeNodes) :
                /\ modeNodes'[i].id = modeNodes[i].id
                /\ modeNodes'[i].label = modeNodes[i].label
          /\ modeEdges' = modeEdges
          /\ clearImpactAnalysis(modeNodes') = modeNodes']_vars

\* Impact mode has been switched off on a diagram of two nodes with an edge
\* after a node was clicked; only a clearing leaves a node with level 'none'
\* at full opacity.
C23_Witness ==
    /\ ~impactMode
    /\ lastHandler = "toggleImpactMode"
    /\ Len(modeNodes) = 2
    /\ \A i \in 1..Len(modeNodes) :
          /\ modeNodes[i].impactLevel = Some("none")
          /\ modeNodes[i].opacity = Some("1")
    /\ selectedNode = Some("1")
    /\ modeEdges # <<>>

\* C26: after a click on a node in impact mode the clicked node is
\* 'critical', every other node that can be reached from it along the edges
\* the diagram has at that moment is 'high', and every other node is 'none'.
C26_ImpactUsesCurrentEdges ==
    (lastHandler = "onNodeClick" /\ impactMode) =>
        \A i \in 1..Len(modeNodes) :
            modeNodes[i].impactLevel =
                IF modeNodes[i].id = selectedNode[1] THEN Some("critical")
                ELSE IF modeNodes[i].id \in
                           ReachableFrom({selectedNode[1]}, modeEdges)
                     THEN Some("high")
                     ELSE Some("none")

\* C24: the dependency graph has one edge for each of the first 15 fields
\* that are reference-typed with a non-empty referenceTo and no edge for any
\* other field; every edge starts at the selected entity and carries the
\* label of its field; so there are at most 15 edges.
C24_DependencyEdgeSet ==
    depNodes # <<>> =>
        LET fields   == depObject.fields
            retained == RetainedPositions(fields)
        IN  /\ \A i \in 1..Len(fields) :
                  Cardinality(EdgesOfField(i)) = IF i \in retained THEN 1 ELSE 0
            /\ \A k \in 1..Len(depEdges) :
                  /\ depEdges[k].source = depObject.apiName
                  /\ \E i \in retained :
                        /\ k \in EdgesOfField(i)
                        /\ depEdges[k].label = fields[i].label
            /\ Len(depEdges) <= 15

\* Fourteen references, a text field that lists a target, and two more
\* references: the cap falls on the first of the two.
C24_Witness ==
    /\ depNodes # <<>>
    /\ Len(depObject.fields) = 16
    /\ depObject.fields[15].type = "string"
    /\ depObject.fields[15].referenceTo = Some(<<"B">>)
    /\ depObject.fields[16].type = "reference"
    /\ depObject.fields[16].referenceTo = Some(<<"C", "B">>)
    /\ Len(depEdges) = 15
    /\ depEdges[15].target = "C"

\* C25: the nodes of the dependency graph are the selected entity and the
\* first targets of the retained reference fields, no id twice, and every
\* edge starts and ends at a node of the graph.
C25_DependencyNodeSet ==
    depNodes # <<>> =>
        LET fields   == depObject.fields
            retained == RetainedPositions(fields)
            ids      == {depNodes[k].id : k \in 1..Len(depNodes)}
        IN  /\ ids = {depObject.apiName} \cup
                     {fields[i].referenceTo[1][1] : i \in retained}
            /\ Len(depNodes) = Cardinality(ids)
            /\ depNodes[1].id = depObject.apiName
            /\ \A k \in 1..Len(depEdges) :
                  /\ depEdges[k].source \in ids
                  /\ depEdges[k].target \in ids

\* Fourteen fields that reference the same entity P and one that references
\* the selected entity itself: two nodes, fifteen edges, the last a loop.
C25_Witness ==
    /\ depNodes # <<>>
    /\ Len(depObject.fields) = 15
    /\ depObject.fields[15].referenceTo = Some(<<"Account", "B">>)
    /\ depObject.fields[15].type = "reference"
    /\ Len(depNodes) = 2
    /\ Len(depEdges) = 15
    /\ depEdges[15].target = depObject.apiName

\* C27: while an execution has not resolved, loading is true and no second
\* execution is in flight, and the results shown are those of the execution
\* started last.
C27_SingleQueryInFlight ==
    /\ pendingExecutes # {} => soqlLoading
    /\ Cardinality(pendingExecutes) <= 1
    /\ soqlResults # None => soqlResults[1].execution = Len(executeLog)

\* C28: in the mounted dictionary, loadingDetails is true exactly when a
\* describe is in flight.
C28_LoadingFlagAccuracy ==
    dictMounted =>
        (loadingDetails <=> \E n \in ObjectNames : describesInFlight[n] > 0)

\* C29: isGenerating is true whenever a generation (the fetch of the
\* approval steps included) is in flight, and no second generation is in
\* flight beside it.
C29_SingleGenerationInFlight ==
    /\ stepsInFlight + generationsInFlight > 0 => isGenerating
    /\ stepsInFlight + generationsInFlight <= 1

\* The rows a query returned: none when it failed or gave no list.
RowsOf(reply) ==
    IF reply.ok /\ reply.records # None THEN reply.records[1] ELSE <<>>

\* The ids the result is to hold for the replies, in the order of the
\* queries: a standard id for a standard query with a row, and the Id of
\* every row of the approval and the flow query.
ExpectedIds(replies) ==
    LET std(i, id) == IF Len(RowsOf(replies[i])) > 0 THEN <<id>> ELSE <<>>
        each(i)    == [k \in 1..Len(RowsOf(replies[i])) |-> RowsOf(replies[i])[k].Id]
    IN  std(1, "std-opp") \o std(2, "std-lead") \o std(3, "std-case")
           \o each(4) \o each(5)

ExpectedTypes(replies) ==
    LET std(i)     == IF Len(RowsOf(replies[i])) > 0 THEN <<"Standard">> ELSE <<>>
        each(i, t) == [k \in 1..Len(RowsOf(replies[i])) |-> t]
    IN  std(1) \o std(2) \o std(3) \o each(4, "Approval") \o each(5, "Flow")

\* C30: the call resolves after its five queries, however each of them
\* ended, with the definitions of the queries that succeeded, in the order of
\* the queries; a standard definition is there only for a query that returned
\* at least one row, and it lists the labels of all its rows.
C30_ProcessDefinitionIsolation ==
    /\ procPc \in {"queries", "resolved"}
    /\ procPc = "resolved" =>
          /\ Len(procReplies) = 5
          /\ [i \in 1..Len(procResults) |-> procResults[i].id] =
                ExpectedIds(procReplies)
          /\ [i \in 1..Len(procResults) |-> procResults[i].type] =
                ExpectedTypes(procReplies)
          /\ \A i \in 1..3 :
                Len(RowsOf(procReplies[i])) > 0 =>
                    \E j \in 1..Len(procResults) :
                        /\ procResults[j].id = <<"std-opp", "std-lead", "std-case">>[i]
                        /\ procResults[j].steps =
                              Some([k \in 1..Len(RowsOf(procReplies[i])) |->
                                       RowsOf(procReplies[i])[k].MasterLabel])

\* The lead query failed, the case query returned no row and the others
\* returned rows: the result holds the opportunity definition, two approval
\* processes and a flow.
C30_Witness ==
    /\ procPc = "resolved"
    /\ ~procReplies[2].ok
    /\ procReplies[3].records = Some(<<>>)
    /\ Len(RowsOf(procReplies[1])) = 2
    /\ Len(RowsOf(procReplies[4])) = 2
    /\ Len(RowsOf(procReplies[5])) = 1
    /\ Len(procResults) = 4
    /\ procResults[1].id = "std-opp"
    /\ procResults[4].type = "Flow"

====
